---- MODULE Spec2Model ----
(***************************************************************************)
(* Hotel management backend (backend/server.py): the booking lifecycle,    *)
(* the availability checker, the amount calculator and the room state      *)
(* that update_booking keeps in step with the booking status.              *)
(*                                                                         *)
(* Every request handler is one atomic action (one request at a time).     *)
(* Entity ids are uuid4 strings in the source; the model draws them from   *)
(* small integer ranges and hands out the smallest id that is neither in   *)
(* use nor still referenced, which is a fresh id up to renaming.           *)
(* Money is counted in whole currency units.                               *)
(***************************************************************************)
EXTENDS Integers, Sequences, FiniteSets, TLC

\* The collections of the store, and the answer to the last request served.
VARIABLES rooms, guests, bookings, payments, invoices, expenses, last

\* The server's clock (datetime.utcnow()), and the create_booking requests that
\* are between their availability read and their insert.
VARIABLES now, inflight

vars == <<rooms, guests, bookings, payments, invoices, expenses, last, now, inflight>>

(* ------------------------------ bounds -------------------------------- *)

MaxRooms == 1
MaxGuests == 1
MaxBookings == 2
MaxDay == 3
MaxPayments == 2
MaxInvoices == 1
MaxExpenses == 2
MaxRequests == 2

RoomIds == 1..MaxRooms
GuestIds == 1..MaxGuests
BookingIds == 1..MaxBookings
Days == 1..MaxDay

RoomNumbers == {"101", "102"}
Emails == {"john.doe@example.com"}
Names == {"John Doe"}
Prices == {100, 150}
Amounts == {100, 200}

(* ------------------------------- enums -------------------------------- *)

RoomStatus == {"available", "occupied", "maintenance", "cleaning"}

BookingStatus == {"pending", "confirmed", "checked_in", "checked_out", "cancelled"}

\* Python's None: an optional field that is null.
None == "<none>"

(* ------------------------------- dates -------------------------------- *)

\* date.isoformat(): fixed-width, zero-padded decimal digits, most significant
\* first (the day number stands for the whole YYYY-MM-DD string).
isoformat(d) == <<d \div 10, d % 10>>

\* date.fromisoformat()
fromisoformat(s) == s[1] * 10 + s[2]

\* The store's $lt on two strings: lexicographic order.
StrLt(s, t) == \E i \in 1..Len(s) : /\ i <= Len(t)
                                    /\ s[i] < t[i]
                                    /\ \A j \in 1..(i - 1) : s[j] = t[j]

\* The store's $gt on two strings.
StrGt(s, t) == StrLt(t, s)

\* A datetime: a day number, the millisecond of the day and the microsecond of
\* the millisecond. datetime.min.time() is 00:00:00.000000 and
\* datetime.max.time() is 23:59:59.999999.
datetime(d, ms, us) == [date |-> d, ms |-> ms, us |-> us]

LastMs == 86399999

LastUs == 999

\* datetime.combine(d, datetime.min.time())
Midnight(d) == datetime(d, 0, 0)

\* datetime.combine(d, datetime.max.time())
EndOfDay(d) == datetime(d, LastMs, LastUs)

\* A datetime as the store holds it: the driver encodes a datetime as whole
\* milliseconds and drops the microseconds, in documents and in queries alike.
bson_datetime(t) == [t EXCEPT !.us = 0]

\* The store's $lt on two datetimes.
DtLt(s, t) ==
    \/ s.date < t.date
    \/ s.date = t.date /\ s.ms < t.ms
    \/ s.date = t.date /\ s.ms = t.ms /\ s.us < t.us

\* The store's $gte on two datetimes.
DtGte(s, t) == ~ DtLt(s, t)

(* ------------------------------ helpers ------------------------------- *)

Response(op, code, detail) == [op |-> op, code |-> code, detail |-> detail]

\* uuid4(): an id no stored document carries or refers to.
FreshId(ids, used) == CHOOSE i \in ids \ used : \A j \in ids \ used : i <= j

ReferencedRooms == {bookings[b].room_id : b \in DOMAIN bookings}

ReferencedGuests == {bookings[b].guest_id : b \in DOMAIN bookings}

ReferencedBookings ==
    {payments[i].booking_id : i \in DOMAIN payments}
        \cup {invoices[i].booking_id : i \in DOMAIN invoices}

\* A function with key k removed (delete_one).
Remove(f, k) == [x \in DOMAIN f \ {k} |-> f[x]]

\* A function with key k inserted (insert_one).
Insert(f, k, v) == [x \in DOMAIN f \cup {k} |-> IF x = k THEN v ELSE f[x]]

\* update_one({"id": k}, {"$set": upd}) on a record: the fields of upd overwrite.
SetFields(doc, upd) == [f \in DOMAIN doc |-> IF f \in DOMAIN upd THEN upd[f] ELSE doc[f]]

\* db.rooms.update_one({"id": r}, {"$set": {"status": s}}): no match, no change.
SetRoomStatus(rs, r, s) == IF r \in DOMAIN rs THEN [rs EXCEPT ![r].status = s] ELSE rs

\* The bookings that keep a room taken: status confirmed or checked_in.
ActiveStatuses == {"confirmed", "checked_in"}

\* Mutant: the status filter of the query names confirmed alone.
AvailabilityQueryMatches_ConfirmedOnly(b, room_id, check_in_str, check_out_str, exclude_booking_id) ==
    /\ bookings[b].room_id = room_id
    /\ bookings[b].status = "confirmed"
    /\ StrLt(bookings[b].check_in_date, check_out_str)
    /\ StrGt(bookings[b].check_out_date, check_in_str)
    /\ (exclude_booking_id # None => b # exclude_booking_id)

\* Mutant: the query compares with $lte and $gte (closed intervals).
AvailabilityQueryMatches_Closed(b, room_id, check_in_str, check_out_str, exclude_booking_id) ==
    /\ bookings[b].room_id = room_id
    /\ bookings[b].status \in ActiveStatuses
    /\ ~ StrGt(bookings[b].check_in_date, check_out_str)
    /\ ~ StrLt(bookings[b].check_out_date, check_in_str)
    /\ (exclude_booking_id # None => b # exclude_booking_id)

\* Mutant: the status filter of the query is left out.
AvailabilityQueryMatches_AnyStatus(b, room_id, check_in_str, check_out_str, exclude_booking_id) ==
    /\ bookings[b].room_id = room_id
    /\ StrLt(bookings[b].check_in_date, check_out_str)
    /\ StrGt(bookings[b].check_out_date, check_in_str)
    /\ (exclude_booking_id # None => b # exclude_booking_id)

\* The query of check_room_availability matches stored booking b.
AvailabilityQueryMatches(b, room_id, check_in_str, check_out_str, exclude_booking_id) ==
    /\ bookings[b].room_id = room_id
    /\ bookings[b].status \in ActiveStatuses
    /\ StrLt(bookings[b].check_in_date, check_out_str)
    /\ StrGt(bookings[b].check_out_date, check_in_str)
    /\ (exclude_booking_id # None => b # exclude_booking_id)

\* check_room_availability: true iff find_one(query) finds nothing.
check_room_availability(room_id, check_in, check_out, exclude_booking_id) ==
    ~ \E b \in DOMAIN bookings :
        AvailabilityQueryMatches(b, room_id, isoformat(check_in), isoformat(check_out),
                                 exclude_booking_id)

\* Mutant: the nights are counted with both end days included.
calculate_booking_amount_Inclusive(room_id, check_in, check_out) ==
    rooms[room_id].price_per_night * (check_out - check_in + 1)

\* calculate_booking_amount, for a room that exists.
calculate_booking_amount(room_id, check_in, check_out) ==
    rooms[room_id].price_per_night * (check_out - check_in)

(* ------------------------------- state -------------------------------- *)

Init ==
    /\ rooms = <<>>
    /\ guests = <<>>
    /\ bookings = <<>>
    /\ payments = <<>>
    /\ invoices = <<>>
    /\ expenses = <<>>
    /\ last = Response("start", 0, "")
    /\ now = Midnight(1)
    /\ inflight = <<>>

(* ---------------------------- room requests --------------------------- *)

\* Mutant: the room number is not looked up before the insert.
create_room_Unchecked(room_number, price_per_night) ==
    /\ RoomIds \ (DOMAIN rooms \cup ReferencedRooms) # {}
    /\ rooms' = Insert(rooms, FreshId(RoomIds, DOMAIN rooms \cup ReferencedRooms),
                       [room_number |-> room_number,
                        price_per_night |-> price_per_night,
                        status |-> "available"])
    /\ last' = Response("create_room", 200, "")
    /\ UNCHANGED <<guests, bookings, payments, invoices, expenses, now, inflight>>

\* POST /rooms
create_room(room_number, price_per_night) ==
    IF \E r \in DOMAIN rooms : rooms[r].room_number = room_number
    THEN /\ last' = Response("create_room", 400, "Room number already exists")
         /\ UNCHANGED <<rooms, guests, bookings, payments, invoices, expenses, now, inflight>>
    ELSE /\ RoomIds \ (DOMAIN rooms \cup ReferencedRooms) # {}
         /\ rooms' = Insert(rooms, FreshId(RoomIds, DOMAIN rooms \cup ReferencedRooms),
                            [room_number |-> room_number,
                             price_per_night |-> price_per_night,
                             status |-> "available"])
         /\ last' = Response("create_room", 200, "")
         /\ UNCHANGED <<guests, bookings, payments, invoices, expenses, now, inflight>>

\* Mutant: a price change is carried over to the bookings of the room.
update_room_Reprices(room_id, room_update) ==
    IF room_id \notin DOMAIN rooms
    THEN /\ last' = Response("update_room", 404, "Room not found")
         /\ UNCHANGED <<rooms, guests, bookings, payments, invoices, expenses, now, inflight>>
    ELSE /\ rooms' = [rooms EXCEPT ![room_id] = SetFields(@, room_update)]
         /\ bookings' = [b \in DOMAIN bookings |->
                IF bookings[b].room_id = room_id
                THEN [bookings[b] EXCEPT !.total_amount =
                        rooms'[room_id].price_per_night
                          * (fromisoformat(bookings[b].check_out_date)
                               - fromisoformat(bookings[b].check_in_date))]
                ELSE bookings[b]]
         /\ last' = Response("update_room", 200, "")
         /\ UNCHANGED <<guests, payments, invoices, expenses, now, inflight>>

\* PUT /rooms/{room_id}; room_update holds the fields the body carries.
update_room(room_id, room_update) ==
    IF room_id \notin DOMAIN rooms
    THEN /\ last' = Response("update_room", 404, "Room not found")
         /\ UNCHANGED <<rooms, guests, bookings, payments, invoices, expenses, now, inflight>>
    ELSE /\ rooms' = [rooms EXCEPT ![room_id] = SetFields(@, room_update)]
         /\ last' = Response("update_room", 200, "")
         /\ UNCHANGED <<guests, bookings, payments, invoices, expenses, now, inflight>>

\* Mutant: a booking of any status keeps the room from being deleted.
delete_room_AnyBooking(room_id) ==
    IF room_id \notin DOMAIN rooms
    THEN /\ last' = Response("delete_room", 404, "Room not found")
         /\ UNCHANGED <<rooms, guests, bookings, payments, invoices, expenses, now, inflight>>
    ELSE IF \E b \in DOMAIN bookings : bookings[b].room_id = room_id
    THEN /\ last' = Response("delete_room", 400, "Cannot delete room with active bookings")
         /\ UNCHANGED <<rooms, guests, bookings, payments, invoices, expenses, now, inflight>>
    ELSE /\ rooms' = Remove(rooms, room_id)
         /\ last' = Response("delete_room", 200, "")
         /\ UNCHANGED <<guests, bookings, payments, invoices, expenses, now, inflight>>

\* DELETE /rooms/{room_id}
delete_room(room_id) ==
    IF room_id \notin DOMAIN rooms
    THEN /\ last' = Response("delete_room", 404, "Room not found")
         /\ UNCHANGED <<rooms, guests, bookings, payments, invoices, expenses, now, inflight>>
    ELSE IF \E b \in DOMAIN bookings : /\ bookings[b].room_id = room_id
                                       /\ bookings[b].status \in ActiveStatuses
    THEN /\ last' = Response("delete_room", 400, "Cannot delete room with active bookings")
         /\ UNCHANGED <<rooms, guests, bookings, payments, invoices, expenses, now, inflight>>
    ELSE /\ rooms' = Remove(rooms, room_id)
         /\ last' = Response("delete_room", 200, "")
         /\ UNCHANGED <<guests, bookings, payments, invoices, expenses, now, inflight>>

\* initialize_default_rooms' list, by the fields the model keeps of a room.
default_rooms ==
    << [room_number |-> "101", price_per_night |-> 100],
       [room_number |-> "102", price_per_night |-> 100],
       [room_number |-> "103", price_per_night |-> 150],
       [room_number |-> "104", price_per_night |-> 150],
       [room_number |-> "105", price_per_night |-> 250],
       [room_number |-> "201", price_per_night |-> 110],
       [room_number |-> "202", price_per_night |-> 160],
       [room_number |-> "203", price_per_night |-> 200],
       [room_number |-> "204", price_per_night |-> 200],
       [room_number |-> "205", price_per_night |-> 300] >>

\* The ids Room(**room_data) gives the default rooms: the k-th gets MaxRooms + k.
DefaultRoomIds == (MaxRooms + 1)..(MaxRooms + Len(default_rooms))

\* rooms_to_insert: the default rooms, each available, under their ids.
rooms_to_insert ==
    [r \in DefaultRoomIds |->
        [room_number |-> default_rooms[r - MaxRooms].room_number,
         price_per_night |-> default_rooms[r - MaxRooms].price_per_night,
         status |-> "available"]]

Message(op, message) == [op |-> op, code |-> 200, detail |-> "", message |-> message]

\* Mutant: the default rooms are written whatever the store holds.
initialize_default_rooms_Always ==
    /\ ReferencedRooms \cap DefaultRoomIds = {}
    /\ rooms' = [r \in DOMAIN rooms \cup DefaultRoomIds |->
                   IF r \in DefaultRoomIds THEN rooms_to_insert[r] ELSE rooms[r]]
    /\ last' = Message("initialize_default_rooms", "Successfully initialized 10 default rooms")
    /\ UNCHANGED <<guests, bookings, payments, invoices, expenses, now, inflight>>

\* POST /initialize-rooms
initialize_default_rooms ==
    IF Cardinality(DOMAIN rooms) > 0
    THEN /\ last' = Message("initialize_default_rooms", "Rooms already initialized")
         /\ UNCHANGED <<rooms, guests, bookings, payments, invoices, expenses, now, inflight>>
    ELSE /\ ReferencedRooms \cap DefaultRoomIds = {}
         /\ rooms' = rooms_to_insert
         /\ last' = Message("initialize_default_rooms", "Successfully initialized 10 default rooms")
         /\ UNCHANGED <<guests, bookings, payments, invoices, expenses, now, inflight>>

(* --------------------------- guest requests --------------------------- *)

\* POST /guests
create_guest(name, email) ==
    IF \E g \in DOMAIN guests : guests[g].email = email
    THEN /\ last' = Response("create_guest", 400, "Guest with this email already exists")
         /\ UNCHANGED <<rooms, guests, bookings, payments, invoices, expenses, now, inflight>>
    ELSE /\ GuestIds \ (DOMAIN guests \cup ReferencedGuests) # {}
         /\ guests' = Insert(guests, FreshId(GuestIds, DOMAIN guests \cup ReferencedGuests),
                             [name |-> name, email |-> email])
         /\ last' = Response("create_guest", 200, "")
         /\ UNCHANGED <<rooms, bookings, payments, invoices, expenses, now, inflight>>

\* DELETE /guests/{guest_id}
delete_guest(guest_id) ==
    IF guest_id \notin DOMAIN guests
    THEN /\ last' = Response("delete_guest", 404, "Guest not found")
         /\ UNCHANGED <<rooms, guests, bookings, payments, invoices, expenses, now, inflight>>
    ELSE IF \E b \in DOMAIN bookings : /\ bookings[b].guest_id = guest_id
                                       /\ bookings[b].status \in ActiveStatuses
    THEN /\ last' = Response("delete_guest", 400, "Cannot delete guest with active bookings")
         /\ UNCHANGED <<rooms, guests, bookings, payments, invoices, expenses, now, inflight>>
    ELSE /\ guests' = Remove(guests, guest_id)
         /\ last' = Response("delete_guest", 200, "")
         /\ UNCHANGED <<rooms, bookings, payments, invoices, expenses, now, inflight>>

(* -------------------------- booking requests -------------------------- *)

\* Mutant: the validator raises only when v < values['check_in_date'].
check_out_after_check_in_Strict(check_in_date, check_out_date) ==
    ~ (check_out_date < check_in_date)

\* BookingCreate's validator: raises ValueError when v <= values['check_in_date'].
check_out_after_check_in(check_in_date, check_out_date) ==
    ~ (check_out_date <= check_in_date)

\* Mutant: the room is looked up before the guest.
MissingReference_RoomFirst(guest_id, room_id) ==
    IF room_id \notin DOMAIN rooms THEN "Room not found"
    ELSE IF guest_id \notin DOMAIN guests THEN "Guest not found"
    ELSE None

\* create_booking's two lookups, "Validate guest exists" then "Validate room
\* exists": the detail of the 404 the first failing one raises, None when both find.
MissingReference(guest_id, room_id) ==
    IF guest_id \notin DOMAIN guests THEN "Guest not found"
    ELSE IF room_id \notin DOMAIN rooms THEN "Room not found"
    ELSE None

\* POST /bookings. BookingCreate's validator check_out_after_check_in runs while
\* the body is parsed, before the handler; its ValueError is answered 422.
create_booking(guest_id, room_id, check_in_date, check_out_date, special_requests) ==
    IF ~ check_out_after_check_in(check_in_date, check_out_date)
    THEN /\ last' = Response("create_booking", 422, "Check-out date must be after check-in date")
         /\ UNCHANGED <<rooms, guests, bookings, payments, invoices, expenses, now, inflight>>
    ELSE IF MissingReference(guest_id, room_id) # None
    THEN /\ last' = Response("create_booking", 404, MissingReference(guest_id, room_id))
         /\ UNCHANGED <<rooms, guests, bookings, payments, invoices, expenses, now, inflight>>
    ELSE IF ~ check_room_availability(room_id, check_in_date, check_out_date, None)
    THEN /\ last' = Response("create_booking", 400, "Room not available for selected dates")
         /\ UNCHANGED <<rooms, guests, bookings, payments, invoices, expenses, now, inflight>>
    ELSE /\ BookingIds \ (DOMAIN bookings \cup ReferencedBookings) # {}
         /\ bookings' = Insert(bookings,
                               FreshId(BookingIds, DOMAIN bookings \cup ReferencedBookings),
                               [guest_id |-> guest_id,
                                room_id |-> room_id,
                                check_in_date |-> isoformat(check_in_date),
                                check_out_date |-> isoformat(check_out_date),
                                status |-> "pending",
                                total_amount |-> calculate_booking_amount(room_id, check_in_date,
                                                                          check_out_date),
                                special_requests |-> special_requests])
         /\ last' = Response("create_booking", 200, "")
         /\ UNCHANGED <<rooms, guests, payments, invoices, expenses, now, inflight>>

\* The requests that may be in flight at once.
Requests == 1..MaxRequests

\* create_booking up to its availability read, for request p: the validator, the
\* two lookups and check_room_availability. A request that passes them is in
\* flight, about to insert; snapshot is the set of bookings its read looked at.
create_booking_read(p, guest_id, room_id, check_in_date, check_out_date, special_requests) ==
    /\ p \notin DOMAIN inflight
    /\ IF ~ check_out_after_check_in(check_in_date, check_out_date)
       THEN /\ last' = Response("create_booking", 422,
                                "Check-out date must be after check-in date")
            /\ UNCHANGED inflight
       ELSE IF MissingReference(guest_id, room_id) # None
       THEN /\ last' = Response("create_booking", 404, MissingReference(guest_id, room_id))
            /\ UNCHANGED inflight
       ELSE IF ~ check_room_availability(room_id, check_in_date, check_out_date, None)
       THEN /\ last' = Response("create_booking", 400, "Room not available for selected dates")
            /\ UNCHANGED inflight
       ELSE /\ inflight' = Insert(inflight, p,
                                  [pc |-> "insert",
                                   guest_id |-> guest_id,
                                   room_id |-> room_id,
                                   check_in_date |-> check_in_date,
                                   check_out_date |-> check_out_date,
                                   special_requests |-> special_requests,
                                   snapshot |-> DOMAIN bookings,
                                   booking |-> 0])
            /\ UNCHANGED last
    /\ UNCHANGED <<rooms, guests, bookings, payments, invoices, expenses, now>>

\* Mutant: the booking is stored as confirmed.
create_booking_insert_Confirmed(p) ==
    /\ p \in DOMAIN inflight
    /\ inflight[p].pc = "insert"
    /\ LET booking == inflight[p]
           id == FreshId(BookingIds, DOMAIN bookings \cup ReferencedBookings)
       IN  IF booking.room_id \notin DOMAIN rooms
           THEN /\ last' = Response("create_booking", 404, "Room not found")
                /\ inflight' = [inflight EXCEPT ![p].pc = "done"]
                /\ UNCHANGED bookings
           ELSE /\ BookingIds \ (DOMAIN bookings \cup ReferencedBookings) # {}
                /\ bookings' = Insert(bookings, id,
                       [guest_id |-> booking.guest_id,
                        room_id |-> booking.room_id,
                        check_in_date |-> isoformat(booking.check_in_date),
                        check_out_date |-> isoformat(booking.check_out_date),
                        status |-> "confirmed",
                        total_amount |-> calculate_booking_amount(booking.room_id,
                                             booking.check_in_date, booking.check_out_date),
                        special_requests |-> booking.special_requests])
                /\ last' = Response("create_booking", 200, "")
                /\ inflight' = [inflight EXCEPT ![p].pc = "done", ![p].booking = id]
    /\ UNCHANGED <<rooms, guests, payments, invoices, expenses, now>>

\* create_booking from the availability read on, for request p in flight:
\* calculate_booking_amount (404 when the room is gone) and the insert.
create_booking_insert(p) ==
    /\ p \in DOMAIN inflight
    /\ inflight[p].pc = "insert"
    /\ LET booking == inflight[p]
           id == FreshId(BookingIds, DOMAIN bookings \cup ReferencedBookings)
       IN  IF booking.room_id \notin DOMAIN rooms
           THEN /\ last' = Response("create_booking", 404, "Room not found")
                /\ inflight' = [inflight EXCEPT ![p].pc = "done"]
                /\ UNCHANGED bookings
           ELSE /\ BookingIds \ (DOMAIN bookings \cup ReferencedBookings) # {}
                /\ bookings' = Insert(bookings, id,
                       [guest_id |-> booking.guest_id,
                        room_id |-> booking.room_id,
                        check_in_date |-> isoformat(booking.check_in_date),
                        check_out_date |-> isoformat(booking.check_out_date),
                        status |-> "pending",
                        total_amount |-> calculate_booking_amount(booking.room_id,
                                             booking.check_in_date, booking.check_out_date),
                        special_requests |-> booking.special_requests])
                /\ last' = Response("create_booking", 200, "")
                /\ inflight' = [inflight EXCEPT ![p].pc = "done", ![p].booking = id]
    /\ UNCHANGED <<rooms, guests, payments, invoices, expenses, now>>

\* Mutant: check-in marks the room occupied only from pending.
RoomsAfterStatusChange_FromPending(booking, new_status) ==
    IF new_status = "checked_in" /\ booking.status = "pending"
    THEN SetRoomStatus(rooms, booking.room_id, "occupied")
    ELSE IF new_status = "checked_out" /\ booking.status = "checked_in"
    THEN SetRoomStatus(rooms, booking.room_id, "cleaning")
    ELSE IF new_status = "cancelled"
    THEN IF booking.room_id \in DOMAIN rooms /\ rooms[booking.room_id].status = "occupied"
         THEN SetRoomStatus(rooms, booking.room_id, "cleaning")
         ELSE rooms
    ELSE rooms

\* Mutant: a cancellation sends the room to cleaning whatever its status.
RoomsAfterStatusChange_CancelCleans(booking, new_status) ==
    IF new_status = "checked_in" /\ booking.status = "confirmed"
    THEN SetRoomStatus(rooms, booking.room_id, "occupied")
    ELSE IF new_status = "checked_out" /\ booking.status = "checked_in"
    THEN SetRoomStatus(rooms, booking.room_id, "cleaning")
    ELSE IF new_status = "cancelled"
    THEN SetRoomStatus(rooms, booking.room_id, "cleaning")
    ELSE rooms

\* Mutant: the room follows the new status whatever the stored one is.
RoomsAfterStatusChange_AnyFrom(booking, new_status) ==
    IF new_status = "checked_in"
    THEN SetRoomStatus(rooms, booking.room_id, "occupied")
    ELSE IF new_status = "checked_out"
    THEN SetRoomStatus(rooms, booking.room_id, "cleaning")
    ELSE IF new_status = "cancelled"
    THEN IF booking.room_id \in DOMAIN rooms /\ rooms[booking.room_id].status = "occupied"
         THEN SetRoomStatus(rooms, booking.room_id, "cleaning")
         ELSE rooms
    ELSE rooms

\* The room side of update_booking's "Handle status changes" block.
RoomsAfterStatusChange(booking, new_status) ==
    IF new_status = "checked_in" /\ booking.status = "confirmed"
    THEN SetRoomStatus(rooms, booking.room_id, "occupied")
    ELSE IF new_status = "checked_out" /\ booking.status = "checked_in"
    THEN SetRoomStatus(rooms, booking.room_id, "cleaning")
    ELSE IF new_status = "cancelled"
    THEN IF booking.room_id \in DOMAIN rooms /\ rooms[booking.room_id].status = "occupied"
         THEN SetRoomStatus(rooms, booking.room_id, "cleaning")
         ELSE rooms
    ELSE rooms

\* Mutant: a booking that is checked_out or cancelled is not updated any more.
update_booking_TerminalGuard(booking_id, booking_update) ==
    IF booking_id \notin DOMAIN bookings
    THEN /\ last' = Response("update_booking", 404, "Booking not found")
         /\ UNCHANGED <<rooms, guests, bookings, payments, invoices, expenses, now, inflight>>
    ELSE IF bookings[booking_id].status \in {"checked_out", "cancelled"}
    THEN /\ last' = Response("update_booking", 400, "Booking is closed")
         /\ UNCHANGED <<rooms, guests, bookings, payments, invoices, expenses, now, inflight>>
    ELSE /\ rooms' = IF "status" \in DOMAIN booking_update
                     THEN RoomsAfterStatusChange(bookings[booking_id], booking_update["status"])
                     ELSE rooms
         /\ bookings' = [bookings EXCEPT ![booking_id] = SetFields(@, booking_update)]
         /\ last' = Response("update_booking", 200, "")
         /\ UNCHANGED <<guests, payments, invoices, expenses, now, inflight>>

\* PUT /bookings/{booking_id}; booking_update holds the fields the body carries
\* (update_data). The stored document is written before the response model is
\* built, and Booking(**updated_booking) rejects a null status (answered 500).
update_booking(booking_id, booking_update) ==
    IF booking_id \notin DOMAIN bookings
    THEN /\ last' = Response("update_booking", 404, "Booking not found")
         /\ UNCHANGED <<rooms, guests, bookings, payments, invoices, expenses, now, inflight>>
    ELSE /\ rooms' = IF "status" \in DOMAIN booking_update
                     THEN RoomsAfterStatusChange(bookings[booking_id], booking_update["status"])
                     ELSE rooms
         /\ bookings' = [bookings EXCEPT ![booking_id] = SetFields(@, booking_update)]
         /\ last' = IF bookings'[booking_id].status = None
                    THEN Response("update_booking", 500, "status: none is not an allowed value")
                    ELSE Response("update_booking", 200, "")
         /\ UNCHANGED <<guests, payments, invoices, expenses, now, inflight>>

\* Mutant: the payments of the booking are deleted with it.
delete_booking_Cascade(booking_id) ==
    IF booking_id \notin DOMAIN bookings
    THEN /\ last' = Response("delete_booking", 404, "Booking not found")
         /\ UNCHANGED <<rooms, guests, bookings, payments, invoices, expenses, now, inflight>>
    ELSE /\ bookings' = Remove(bookings, booking_id)
         /\ payments' = SelectSeq(payments, LAMBDA p : p.booking_id # booking_id)
         /\ last' = Response("delete_booking", 200, "")
         /\ UNCHANGED <<rooms, guests, invoices, expenses, now, inflight>>

\* DELETE /bookings/{booking_id}
delete_booking(booking_id) ==
    IF booking_id \notin DOMAIN bookings
    THEN /\ last' = Response("delete_booking", 404, "Booking not found")
         /\ UNCHANGED <<rooms, guests, bookings, payments, invoices, expenses, now, inflight>>
    ELSE /\ bookings' = Remove(bookings, booking_id)
         /\ last' = Response("delete_booking", 200, "")
         /\ UNCHANGED <<rooms, guests, payments, invoices, expenses, now, inflight>>

\* The body {"available": is_available} of the availability answer.
Available(is_available) == IF is_available THEN "available: true" ELSE "available: false"

\* GET /rooms/{room_id}/availability; the answer's body is the detail.
check_room_availability_endpoint(room_id, check_in, check_out) ==
    /\ last' = IF room_id \notin DOMAIN rooms
               THEN Response("check_room_availability_endpoint", 404, "Room not found")
               ELSE Response("check_room_availability_endpoint", 200,
                             Available(check_room_availability(room_id, check_in, check_out, None)))
    /\ UNCHANGED <<rooms, guests, bookings, payments, invoices, expenses, now, inflight>>

(* ------------------------- payments and invoices ---------------------- *)

\* db.payments.find({"booking_id": booking_id}) on collection pays, in stored order.
PaymentsOf(pays, booking_id) == SelectSeq(pays, LAMBDA p : p.booking_id = booking_id)

\* sum(payment["amount"] for payment in payments)
RECURSIVE SumAmounts(_)
SumAmounts(pays) == IF pays = <<>> THEN 0 ELSE Head(pays).amount + SumAmounts(Tail(pays))

\* Mutant: the filter on is_advance is left out.
AdvancePaid_All(pays) == SumAmounts(pays)

\* sum(p["amount"] for p in payments if p.get("is_advance", False))
AdvancePaid(pays) == SumAmounts(SelectSeq(pays, LAMBDA p : p.is_advance))

\* Mutant: the advance flag of the body is dropped (the default, False, is stored).
Payment_NotAdvance(booking_id, amount, is_advance) ==
    [booking_id |-> booking_id, amount |-> amount, is_advance |-> FALSE,
     status |-> "completed", payment_date |-> bson_datetime(now)]

\* Payment(**payment_dict) as insert_one stores it: status defaults to completed,
\* payment_date to datetime.utcnow().
Payment(booking_id, amount, is_advance) ==
    [booking_id |-> booking_id, amount |-> amount, is_advance |-> is_advance,
     status |-> "completed", payment_date |-> bson_datetime(now)]

\* POST /payments
create_payment(booking_id, amount, is_advance) ==
    IF booking_id \notin DOMAIN bookings
    THEN /\ last' = Response("create_payment", 404, "Booking not found")
         /\ UNCHANGED <<rooms, guests, bookings, payments, invoices, expenses, now, inflight>>
    ELSE /\ payments' = Append(payments, Payment(booking_id, amount, is_advance))
         /\ last' = Response("create_payment", 200, "")
         /\ UNCHANGED <<rooms, guests, bookings, invoices, expenses, now, inflight>>

\* Mutant: the balance is clamped at zero.
BalanceAnswer_Clamped(booking_id) ==
    LET total_paid == SumAmounts(PaymentsOf(payments, booking_id))
        balance == bookings[booking_id].total_amount - total_paid
    IN  [op |-> "get_booking_balance", code |-> 200, detail |-> "",
         booking_id |-> booking_id,
         total_amount |-> bookings[booking_id].total_amount,
         total_paid |-> total_paid,
         balance_due |-> IF balance < 0 THEN 0 ELSE balance,
         payments |-> PaymentsOf(payments, booking_id)]

\* The body get_booking_balance returns for a stored booking.
BalanceAnswer(booking_id) ==
    LET total_paid == SumAmounts(PaymentsOf(payments, booking_id))
        balance == bookings[booking_id].total_amount - total_paid
    IN  [op |-> "get_booking_balance", code |-> 200, detail |-> "",
         booking_id |-> booking_id,
         total_amount |-> bookings[booking_id].total_amount,
         total_paid |-> total_paid,
         balance_due |-> balance,
         payments |-> PaymentsOf(payments, booking_id)]

\* GET /bookings/{booking_id}/balance
get_booking_balance(booking_id) ==
    /\ last' = IF booking_id \notin DOMAIN bookings
               THEN Response("get_booking_balance", 404, "Booking not found")
               ELSE BalanceAnswer(booking_id)
    /\ UNCHANGED <<rooms, guests, bookings, payments, invoices, expenses, now, inflight>>

\* generate_invoice's lookups of the guest and the room of a stored booking: the
\* detail of the 404 the first failing one raises, None when both find.
InvoiceMissing(booking) ==
    IF booking.guest_id \notin DOMAIN guests THEN "Guest not found"
    ELSE IF booking.room_id \notin DOMAIN rooms THEN "Room not found"
    ELSE None

\* Mutant: the invoice's balance counts the advance payments alone.
Invoice_AdvanceOnly(bks, pays, booking_id) ==
    [booking_id |-> booking_id,
     guest_name |-> guests[bks[booking_id].guest_id].name,
     room_number |-> rooms[bks[booking_id].room_id].room_number,
     check_in_date |-> bks[booking_id].check_in_date,
     check_out_date |-> bks[booking_id].check_out_date,
     total_amount |-> bks[booking_id].total_amount,
     advance_paid |-> AdvancePaid(PaymentsOf(pays, booking_id)),
     balance_due |-> bks[booking_id].total_amount - AdvancePaid(PaymentsOf(pays, booking_id)),
     payments |-> PaymentsOf(pays, booking_id)]

\* invoice_data of generate_invoice, from booking booking_id of collection bks
\* and the payments pays stored at that moment.
Invoice(bks, pays, booking_id) ==
    [booking_id |-> booking_id,
     guest_name |-> guests[bks[booking_id].guest_id].name,
     room_number |-> rooms[bks[booking_id].room_id].room_number,
     check_in_date |-> bks[booking_id].check_in_date,
     check_out_date |-> bks[booking_id].check_out_date,
     total_amount |-> bks[booking_id].total_amount,
     advance_paid |-> AdvancePaid(PaymentsOf(pays, booking_id)),
     balance_due |-> bks[booking_id].total_amount - SumAmounts(PaymentsOf(pays, booking_id)),
     payments |-> PaymentsOf(pays, booking_id)]

\* Mutant: an invoice generated again takes the place of the booking's earlier one.
generate_invoice_Replace(booking_id) ==
    IF booking_id \notin DOMAIN bookings
    THEN /\ last' = Response("generate_invoice", 404, "Booking not found")
         /\ UNCHANGED <<rooms, guests, bookings, payments, invoices, expenses, now, inflight>>
    ELSE IF InvoiceMissing(bookings[booking_id]) # None
    THEN /\ last' = Response("generate_invoice", 404, InvoiceMissing(bookings[booking_id]))
         /\ UNCHANGED <<rooms, guests, bookings, payments, invoices, expenses, now, inflight>>
    ELSE /\ invoices' = Append(SelectSeq(invoices, LAMBDA i : i.booking_id # booking_id),
                               Invoice(bookings, payments, booking_id))
         /\ last' = Response("generate_invoice", 200, "")
         /\ UNCHANGED <<rooms, guests, bookings, payments, expenses, now, inflight>>

\* POST /invoices/generate/{booking_id}
generate_invoice(booking_id) ==
    IF booking_id \notin DOMAIN bookings
    THEN /\ last' = Response("generate_invoice", 404, "Booking not found")
         /\ UNCHANGED <<rooms, guests, bookings, payments, invoices, expenses, now, inflight>>
    ELSE IF InvoiceMissing(bookings[booking_id]) # None
    THEN /\ last' = Response("generate_invoice", 404, InvoiceMissing(bookings[booking_id]))
         /\ UNCHANGED <<rooms, guests, bookings, payments, invoices, expenses, now, inflight>>
    ELSE /\ invoices' = Append(invoices, Invoice(bookings, payments, booking_id))
         /\ last' = Response("generate_invoice", 200, "")
         /\ UNCHANGED <<rooms, guests, bookings, payments, expenses, now, inflight>>

\* The summary checkout_booking returns.
CheckoutSummary(total_amount, total_paid, balance_due, invoice_id) ==
    [op |-> "checkout_booking", code |-> 200, detail |-> "Checkout completed successfully",
     total_amount |-> total_amount, total_paid |-> total_paid, balance_due |-> balance_due,
     invoice_id |-> invoice_id]

\* checkout_booking's "if final_payment and balance_due > 0".
ProcessesFinalPayment(final_payment, balance_due) ==
    final_payment # <<>> /\ balance_due > 0

\* Mutant: a confirmed booking may be checked out as well.
CheckoutAllowed_OrConfirmed(booking) ==
    booking.status = "checked_in" \/ booking.status = "confirmed"

\* checkout_booking's status guard: booking["status"] != CHECKED_IN raises 400.
CheckoutAllowed(booking) ==
    booking.status = "checked_in"

\* Mutant: checkout sends the room to cleaning only when it is occupied.
RoomsAfterCheckout_IfOccupied(booking) ==
    IF booking.room_id \in DOMAIN rooms /\ rooms[booking.room_id].status = "occupied"
    THEN SetRoomStatus(rooms, booking.room_id, "cleaning")
    ELSE rooms

\* checkout_booking's "Update room status to cleaning".
RoomsAfterCheckout(booking) ==
    SetRoomStatus(rooms, booking.room_id, "cleaning")

\* Mutant: the final payment is stored with the booking_id and is_advance of
\* the body.
FinalPaymentDoc_AsSent(booking_id, final_payment) ==
    Payment(final_payment.booking_id, final_payment.amount, final_payment.is_advance)

\* checkout_booking's final_payment_dict: the body, its booking_id set to the
\* booking's and its is_advance to False.
FinalPaymentDoc(booking_id, final_payment) ==
    Payment(booking_id, final_payment.amount, FALSE)

\* Mutant: the guest and the room are looked up before anything is written.
checkout_booking_Atomic(booking_id, final_payment) ==
    IF booking_id \notin DOMAIN bookings
    THEN /\ last' = Response("checkout_booking", 404, "Booking not found")
         /\ UNCHANGED <<rooms, guests, bookings, payments, invoices, expenses, now, inflight>>
    ELSE IF ~ CheckoutAllowed(bookings[booking_id])
    THEN /\ last' = Response("checkout_booking", 400, "Booking must be checked in to checkout")
         /\ UNCHANGED <<rooms, guests, bookings, payments, invoices, expenses, now, inflight>>
    ELSE
      LET booking == bookings[booking_id]
          total_paid == SumAmounts(PaymentsOf(payments, booking_id))
          balance_due == booking.total_amount - total_paid
          pays == ProcessesFinalPayment(final_payment, balance_due)
      IN  IF pays /\ final_payment[1].amount > balance_due
          THEN /\ last' = Response("checkout_booking", 400, "Payment amount exceeds balance due")
               /\ UNCHANGED <<rooms, guests, bookings, payments, invoices, expenses, now, inflight>>
          ELSE IF InvoiceMissing(booking) # None
          THEN /\ last' = Response("checkout_booking", 404, InvoiceMissing(booking))
               /\ UNCHANGED <<rooms, guests, bookings, payments, invoices, expenses, now, inflight>>
          ELSE /\ payments' = IF pays
                              THEN Append(payments,
                                          FinalPaymentDoc(booking_id, final_payment[1]))
                              ELSE payments
               /\ bookings' = [bookings EXCEPT ![booking_id].status = "checked_out"]
               /\ rooms' = RoomsAfterCheckout(booking)
               /\ IF InvoiceMissing(booking) # None
                  THEN /\ last' = Response("checkout_booking", 404, InvoiceMissing(booking))
                       /\ UNCHANGED invoices
                  ELSE /\ invoices' = Append(invoices, Invoice(bookings', payments', booking_id))
                       /\ last' = CheckoutSummary(
                              booking.total_amount,
                              IF pays THEN total_paid + final_payment[1].amount ELSE total_paid,
                              IF pays THEN balance_due - final_payment[1].amount ELSE balance_due,
                              Len(invoices'))
               /\ UNCHANGED <<guests, expenses, now, inflight>>

\* Mutant: the checkout stores no invoice.
checkout_booking_NoInvoice(booking_id, final_payment) ==
    IF booking_id \notin DOMAIN bookings
    THEN /\ last' = Response("checkout_booking", 404, "Booking not found")
         /\ UNCHANGED <<rooms, guests, bookings, payments, invoices, expenses, now, inflight>>
    ELSE IF ~ CheckoutAllowed(bookings[booking_id])
    THEN /\ last' = Response("checkout_booking", 400, "Booking must be checked in to checkout")
         /\ UNCHANGED <<rooms, guests, bookings, payments, invoices, expenses, now, inflight>>
    ELSE
      LET booking == bookings[booking_id]
          total_paid == SumAmounts(PaymentsOf(payments, booking_id))
          balance_due == booking.total_amount - total_paid
          pays == ProcessesFinalPayment(final_payment, balance_due)
      IN  IF pays /\ final_payment[1].amount > balance_due
          THEN /\ last' = Response("checkout_booking", 400, "Payment amount exceeds balance due")
               /\ UNCHANGED <<rooms, guests, bookings, payments, invoices, expenses, now, inflight>>
          ELSE /\ payments' = IF pays
                              THEN Append(payments,
                                          FinalPaymentDoc(booking_id, final_payment[1]))
                              ELSE payments
               /\ bookings' = [bookings EXCEPT ![booking_id].status = "checked_out"]
               /\ rooms' = RoomsAfterCheckout(booking)
               /\ IF InvoiceMissing(booking) # None
                  THEN /\ last' = Response("checkout_booking", 404, InvoiceMissing(booking))
                       /\ UNCHANGED invoices
                  ELSE /\ invoices' = invoices
                       /\ last' = CheckoutSummary(
                              booking.total_amount,
                              IF pays THEN total_paid + final_payment[1].amount ELSE total_paid,
                              IF pays THEN balance_due - final_payment[1].amount ELSE balance_due,
                              Len(invoices'))
               /\ UNCHANGED <<guests, expenses, now, inflight>>

\* POST /bookings/{booking_id}/checkout; final_payment is the optional body:
\* <<>> when absent, <<body>> with body a PaymentCreate. The writes come one
\* after the other and an HTTPException raised by generate_invoice undoes none
\* of them.
checkout_booking(booking_id, final_payment) ==
    IF booking_id \notin DOMAIN bookings
    THEN /\ last' = Response("checkout_booking", 404, "Booking not found")
         /\ UNCHANGED <<rooms, guests, bookings, payments, invoices, expenses, now, inflight>>
    ELSE IF ~ CheckoutAllowed(bookings[booking_id])
    THEN /\ last' = Response("checkout_booking", 400, "Booking must be checked in to checkout")
         /\ UNCHANGED <<rooms, guests, bookings, payments, invoices, expenses, now, inflight>>
    ELSE
      LET booking == bookings[booking_id]
          total_paid == SumAmounts(PaymentsOf(payments, booking_id))
          balance_due == booking.total_amount - total_paid
          pays == ProcessesFinalPayment(final_payment, balance_due)
      IN  IF pays /\ final_payment[1].amount > balance_due
          THEN /\ last' = Response("checkout_booking", 400, "Payment amount exceeds balance due")
               /\ UNCHANGED <<rooms, guests, bookings, payments, invoices, expenses, now, inflight>>
          ELSE /\ payments' = IF pays
                              THEN Append(payments,
                                          FinalPaymentDoc(booking_id, final_payment[1]))
                              ELSE payments
               /\ bookings' = [bookings EXCEPT ![booking_id].status = "checked_out"]
               /\ rooms' = RoomsAfterCheckout(booking)
               /\ IF InvoiceMissing(booking) # None
                  THEN /\ last' = Response("checkout_booking", 404, InvoiceMissing(booking))
                       /\ UNCHANGED invoices
                  ELSE /\ invoices' = Append(invoices, Invoice(bookings', payments', booking_id))
                       /\ last' = CheckoutSummary(
                              booking.total_amount,
                              IF pays THEN total_paid + final_payment[1].amount ELSE total_paid,
                              IF pays THEN balance_due - final_payment[1].amount ELSE balance_due,
                              Len(invoices'))
               /\ UNCHANGED <<guests, expenses, now, inflight>>

(* ----------------------- checkout, store step by store step ----------- *)

\* Request p in flight answers: the answer is kept with the request and is the
\* last one given.
Reply(p, answer) ==
    /\ inflight' = [inflight EXCEPT ![p].pc = "done", ![p].answer = answer]
    /\ last' = answer

\* checkout_booking up to its first read, for request p: find_one of the booking
\* and the status guard. paid_at_start is what was paid on the booking when the
\* request started.
checkout_find(p, booking_id, final_payment) ==
    /\ p \notin DOMAIN inflight
    /\ LET request == [pc |-> "payments",
                       booking_id |-> booking_id,
                       final_payment |-> final_payment,
                       booking |-> IF booking_id \in DOMAIN bookings
                                   THEN <<bookings[booking_id]>> ELSE <<>>,
                       total_paid |-> 0,
                       balance_due |-> 0,
                       paid_at_start |-> SumAmounts(PaymentsOf(payments, booking_id)),
                       invoice |-> <<>>,
                       answer |-> Response("checkout_booking", 0, "")]
           answer == IF booking_id \notin DOMAIN bookings
                     THEN Response("checkout_booking", 404, "Booking not found")
                     ELSE Response("checkout_booking", 400,
                                   "Booking must be checked in to checkout")
       IN  IF booking_id \in DOMAIN bookings /\ CheckoutAllowed(bookings[booking_id])
           THEN /\ inflight' = Insert(inflight, p, request)
                /\ UNCHANGED last
           ELSE /\ inflight' = Insert(inflight, p,
                                      [request EXCEPT !.pc = "done", !.answer = answer])
                /\ last' = answer
    /\ UNCHANGED <<rooms, guests, bookings, payments, invoices, expenses, now>>

\* "Calculate balance": the read of the booking's payments, and the amount
\* check of the final payment on what was read.
checkout_payments(p) ==
    /\ p \in DOMAIN inflight
    /\ inflight[p].pc = "payments"
    /\ LET request == inflight[p]
           total_paid == SumAmounts(PaymentsOf(payments, request.booking_id))
           balance_due == request.booking[1].total_amount - total_paid
           pays == ProcessesFinalPayment(request.final_payment, balance_due)
       IN  IF pays /\ request.final_payment[1].amount > balance_due
           THEN Reply(p, Response("checkout_booking", 400, "Payment amount exceeds balance due"))
           ELSE /\ inflight' = [inflight EXCEPT
                                  ![p].pc = IF pays THEN "insert_payment" ELSE "update_booking",
                                  ![p].total_paid = total_paid,
                                  ![p].balance_due = balance_due]
                /\ UNCHANGED last
    /\ UNCHANGED <<rooms, guests, bookings, payments, invoices, expenses, now>>

\* The insert of the final payment, and the two running totals.
checkout_insert_payment(p) ==
    /\ p \in DOMAIN inflight
    /\ inflight[p].pc = "insert_payment"
    /\ LET request == inflight[p]
       IN  /\ payments' = Append(payments,
                                 FinalPaymentDoc(request.booking_id, request.final_payment[1]))
           /\ inflight' = [inflight EXCEPT
                             ![p].pc = "update_booking",
                             ![p].total_paid = @ + request.final_payment[1].amount,
                             ![p].balance_due = @ - request.final_payment[1].amount]
    /\ UNCHANGED <<rooms, guests, bookings, invoices, expenses, now, last>>

\* "Update booking status": update_one on the booking, no match no change.
checkout_update_booking(p) ==
    /\ p \in DOMAIN inflight
    /\ inflight[p].pc = "update_booking"
    /\ bookings' = IF inflight[p].booking_id \in DOMAIN bookings
                   THEN [bookings EXCEPT ![inflight[p].booking_id].status = "checked_out"]
                   ELSE bookings
    /\ inflight' = [inflight EXCEPT ![p].pc = "update_room"]
    /\ UNCHANGED <<rooms, guests, payments, invoices, expenses, now, last>>

\* "Update room status to cleaning".
checkout_update_room(p) ==
    /\ p \in DOMAIN inflight
    /\ inflight[p].pc = "update_room"
    /\ rooms' = RoomsAfterCheckout(inflight[p].booking[1])
    /\ inflight' = [inflight EXCEPT ![p].pc = "invoice"]
    /\ UNCHANGED <<guests, bookings, payments, invoices, expenses, now, last>>

\* generate_invoice's reads (booking, guest, room, payments), taken together:
\* a 404 when one of the three is missing, else invoice_data.
checkout_invoice(p) ==
    /\ p \in DOMAIN inflight
    /\ inflight[p].pc = "invoice"
    /\ LET booking_id == inflight[p].booking_id
       IN  IF booking_id \notin DOMAIN bookings
           THEN Reply(p, Response("checkout_booking", 404, "Booking not found"))
           ELSE IF InvoiceMissing(bookings[booking_id]) # None
           THEN Reply(p, Response("checkout_booking", 404, InvoiceMissing(bookings[booking_id])))
           ELSE /\ inflight' = [inflight EXCEPT
                                  ![p].pc = "insert_invoice",
                                  ![p].invoice = <<Invoice(bookings, payments, booking_id)>>]
                /\ UNCHANGED last
    /\ UNCHANGED <<rooms, guests, bookings, payments, invoices, expenses, now>>

\* generate_invoice's insert, and checkout_booking's answer.
checkout_insert_invoice(p) ==
    /\ p \in DOMAIN inflight
    /\ inflight[p].pc = "insert_invoice"
    /\ invoices' = Append(invoices, inflight[p].invoice[1])
    /\ Reply(p, CheckoutSummary(inflight[p].booking[1].total_amount,
                                inflight[p].total_paid,
                                inflight[p].balance_due,
                                Len(invoices')))
    /\ UNCHANGED <<rooms, guests, bookings, payments, expenses, now>>

(* ------------------------------- routing ------------------------------ *)

\* The id of a document as it is written in a path: str(uuid) in the source.
PathId(i) == ToString(i)

\* The spelling of the strings the guests of the model carry.
Spell(s) ==
    CASE s = "John Doe" -> <<"J", "o", "h", "n", " ", "D", "o", "e">>
      [] s = "john.doe@example.com" ->
           <<"j", "o", "h", "n", ".", "d", "o", "e", "@",
             "e", "x", "a", "m", "p", "l", "e", ".", "c", "o", "m">>

\* The "$options": "i" of the search: letters compare without case.
Lower(c) ==
    CASE c = "J" -> "j" [] c = "O" -> "o" [] c = "H" -> "h" [] c = "N" -> "n"
      [] c = "D" -> "d" [] OTHER -> c

\* {"$regex": query, "$options": "i"} for a query of letters only: the query
\* occurs in the text, case apart.
RegexMatches(text, query) ==
    \E k \in 0..(Len(text) - Len(query)) :
        \A i \in 1..Len(query) : Lower(text[k + i]) = Lower(query[i])

Lit(segment) == <<"lit", segment>>

Param(name) == <<"param", name>>

\* The GET routes of api_router under /guests and /bookings of at most two
\* segments, in the order their decorators register them.
routes ==
    << [endpoint |-> "get_guests", path |-> <<Lit("guests")>>],
       [endpoint |-> "get_guest", path |-> <<Lit("guests"), Param("guest_id")>>],
       [endpoint |-> "get_bookings", path |-> <<Lit("bookings")>>],
       [endpoint |-> "get_booking", path |-> <<Lit("bookings"), Param("booking_id")>>],
       [endpoint |-> "get_bookings_by_date_range", path |-> <<Lit("bookings"), Lit("range")>>],
       [endpoint |-> "search_guests", path |-> <<Lit("guests"), Lit("search")>>] >>

\* A route matches a path when each literal segment is the path's and each
\* parameter takes the path's segment, whatever it is.
Matches(route, path) ==
    /\ Len(route.path) = Len(path)
    /\ \A i \in DOMAIN path : route.path[i][1] = "param" \/ route.path[i][2] = path[i]

\* The router gives a request to the first route, in registration order, that
\* matches its path.
Endpoint(path) ==
    IF \A i \in DOMAIN routes : ~ Matches(routes[i], path) THEN "not_found"
    ELSE routes[CHOOSE i \in DOMAIN routes :
                  /\ Matches(routes[i], path)
                  /\ \A j \in 1..(i - 1) : ~ Matches(routes[j], path)].endpoint

Found(op, result) == [op |-> op, code |-> 200, detail |-> "", result |-> result]

\* GET /guests: the stored guests, by id.
get_guests ==
    /\ last' = Found("get_guests", DOMAIN guests)
    /\ UNCHANGED <<rooms, guests, bookings, payments, invoices, expenses, now, inflight>>

\* GET /guests/{guest_id}
get_guest(guest_id) ==
    /\ last' = IF \A g \in DOMAIN guests : PathId(g) # guest_id
               THEN Response("get_guest", 404, "Guest not found")
               ELSE Found("get_guest", {g \in DOMAIN guests : PathId(g) = guest_id})
    /\ UNCHANGED <<rooms, guests, bookings, payments, invoices, expenses, now, inflight>>

\* GET /guests/search: the guests whose name or email matches the query (the
\* guests of the model carry no phone).
search_guests(query) ==
    /\ last' = Found("search_guests",
                     {g \in DOMAIN guests :
                        \/ RegexMatches(Spell(guests[g].name), query)
                        \/ RegexMatches(Spell(guests[g].email), query)})
    /\ UNCHANGED <<rooms, guests, bookings, payments, invoices, expenses, now, inflight>>

\* GET /bookings: the stored bookings, by id.
get_bookings ==
    /\ last' = Found("get_bookings", DOMAIN bookings)
    /\ UNCHANGED <<rooms, guests, bookings, payments, invoices, expenses, now, inflight>>

\* GET /bookings/{booking_id}
get_booking(booking_id) ==
    /\ last' = IF \A b \in DOMAIN bookings : PathId(b) # booking_id
               THEN Response("get_booking", 404, "Booking not found")
               ELSE Found("get_booking", {b \in DOMAIN bookings : PathId(b) = booking_id})
    /\ UNCHANGED <<rooms, guests, bookings, payments, invoices, expenses, now, inflight>>

\* GET /bookings/range: the "$or" of the three date conditions, on the strings.
get_bookings_by_date_range(start_date, end_date) ==
    /\ LET start_date_str == isoformat(start_date)
           end_date_str == isoformat(end_date)
           Gte(x, y) == ~ StrLt(x, y)
           Lte(x, y) == ~ StrGt(x, y)
       IN  last' = Found("get_bookings_by_date_range",
                         {b \in DOMAIN bookings :
                            \/ /\ Gte(bookings[b].check_in_date, start_date_str)
                               /\ Lte(bookings[b].check_in_date, end_date_str)
                            \/ /\ Gte(bookings[b].check_out_date, start_date_str)
                               /\ Lte(bookings[b].check_out_date, end_date_str)
                            \/ /\ Lte(bookings[b].check_in_date, start_date_str)
                               /\ Gte(bookings[b].check_out_date, end_date_str)})
    /\ UNCHANGED <<rooms, guests, bookings, payments, invoices, expenses, now, inflight>>

\* A GET request for a path, with the query parameters it carries: the handler
\* of the route the router picks answers it.
GET(path, query, start_date, end_date) ==
    LET endpoint == Endpoint(path)
    IN  CASE endpoint = "get_guests" -> get_guests
          [] endpoint = "get_guest" -> get_guest(path[2])
          [] endpoint = "search_guests" -> search_guests(query)
          [] endpoint = "get_bookings" -> get_bookings
          [] endpoint = "get_booking" -> get_booking(path[2])
          [] endpoint = "get_bookings_by_date_range" ->
               get_bookings_by_date_range(start_date, end_date)
          [] OTHER ->
               /\ last' = Response("GET", 404, "Not Found")
               /\ UNCHANGED <<rooms, guests, bookings, payments, invoices, expenses,
                              now, inflight>>

(* ------------------------- expenses and reports ----------------------- *)

ExpenseCategory == {"utilities", "maintenance", "supplies", "staff", "marketing", "other"}

\* POST /expenses; expense_date is the optional field of the body: <<>> when
\* absent, <<d>> when it carries day d. date.today() is the day of the server's
\* clock (the server keeps UTC).
create_expense(category, amount, expense_date) ==
    /\ expenses' = Append(expenses,
                          [category |-> category,
                           amount |-> amount,
                           expense_date |-> isoformat(IF expense_date = <<>>
                                                      THEN now.date
                                                      ELSE expense_date[1])])
    /\ last' = Response("create_expense", 200, "")
    /\ UNCHANGED <<rooms, guests, bookings, payments, invoices, now, inflight>>

\* Time passes: the clock moves on to a later instant t.
tick(t) ==
    /\ DtLt(now, t)
    /\ now' = t
    /\ UNCHANGED <<rooms, guests, bookings, payments, invoices, expenses, last, inflight>>

\* Mutant: every booking whose check_out_date is the day counts as completed.
CompletedBookings_AnyStatus(report_date_str) ==
    {b \in DOMAIN bookings : bookings[b].check_out_date = report_date_str}

\* get_financial_report's "completed bookings for the date".
CompletedBookings(report_date_str) ==
    {b \in DOMAIN bookings : /\ bookings[b].status = "checked_out"
                             /\ bookings[b].check_out_date = report_date_str}

\* get_financial_report's "payments for the date", in stored order.
PaymentsOn(report_date) ==
    SelectSeq(payments,
              LAMBDA p : /\ DtGte(p.payment_date, bson_datetime(Midnight(report_date)))
                         /\ DtLt(p.payment_date, bson_datetime(EndOfDay(report_date))))

\* get_financial_report's "expenses for the date", in stored order.
ExpensesOn(report_date_str) ==
    SelectSeq(expenses, LAMBDA e : e.expense_date = report_date_str)

\* sum(booking["total_amount"] for booking in completed_bookings)
RECURSIVE SumTotals(_)
SumTotals(bs) ==
    IF bs = {} THEN 0
    ELSE LET b == CHOOSE x \in bs : TRUE
         IN  bookings[b].total_amount + SumTotals(bs \ {b})

\* get_financial_report's "Group expenses by category".
ExpensesByCategory(exps) ==
    [c \in {exps[i].category : i \in DOMAIN exps} |->
        SumAmounts(SelectSeq(exps, LAMBDA e : e.category = c))]

\* GET /financial/report
get_financial_report(report_date) ==
    /\ LET completed_bookings == CompletedBookings(isoformat(report_date))
           pays == PaymentsOn(report_date)
           exps == ExpensesOn(isoformat(report_date))
       IN  last' = [op |-> "get_financial_report", code |-> 200, detail |-> "",
                    date |-> report_date,
                    total_income |-> SumAmounts(pays),
                    total_expenses |-> SumAmounts(exps),
                    net_profit |-> SumAmounts(pays) - SumAmounts(exps),
                    total_bookings |-> Cardinality(completed_bookings),
                    room_revenue |-> SumTotals(completed_bookings),
                    advance_payments |-> SumAmounts(SelectSeq(pays, LAMBDA p : p.is_advance)),
                    final_payments |-> SumAmounts(SelectSeq(pays, LAMBDA p : ~ p.is_advance)),
                    expenses_by_category |-> ExpensesByCategory(exps)]
    /\ UNCHANGED <<rooms, guests, bookings, payments, invoices, expenses, now, inflight>>

(* ------------------------------ requests ------------------------------ *)

\* A body that carries none of the optional fields.
EmptyBody == [f \in {} |-> None]

\* The bodies PUT /rooms/{room_id} may carry (RoomUpdate, fields left out unset).
RoomUpdates(prices) ==
    {EmptyBody} \cup [price_per_night : prices] \cup [status : RoomStatus]
                \cup [price_per_night : prices, status : RoomStatus]

\* The special request every booking request of the model carries.
Pillows == "Extra pillows please"

\* The bodies PUT /bookings/{booking_id} may carry (BookingUpdate).
BookingUpdates ==
    {EmptyBody} \cup [status : BookingStatus] \cup [special_requests : {Pillows}]
                \cup [status : BookingStatus, special_requests : {Pillows}]

\* The price the rooms of specification Spec are listed at.
ListPrices == {100}

\* Reservation requests, one at a time, from the empty store.
Next ==
    \/ \E n \in RoomNumbers, p \in ListPrices : create_room(n, p)
    \/ \E r \in RoomIds, u \in RoomUpdates(ListPrices) : update_room(r, u)
    \/ \E r \in RoomIds : delete_room(r)
    \/ \E n \in Names, e \in Emails : create_guest(n, e)
    \/ \E g \in GuestIds : delete_guest(g)
    \/ \E g \in GuestIds, r \in RoomIds, ci \in Days, co \in Days :
          create_booking(g, r, ci, co, Pillows)
    \/ \E b \in BookingIds, u \in BookingUpdates : update_booking(b, u)
    \/ \E b \in BookingIds : delete_booking(b)
    \/ \E r \in RoomIds, ci \in Days, co \in Days : check_room_availability_endpoint(r, ci, co)

Spec == Init /\ [][Next]_vars

\* The bodies checkout may carry: none, or a PaymentCreate, whose booking_id and
\* is_advance the handler overwrites.
FinalPayments ==
    {<<>>} \cup {<<body>> : body \in [booking_id : BookingIds, amount : Amounts,
                                      is_advance : BOOLEAN]}

\* One stay and its money: a room whose price changes and that may be put under
\* maintenance, a guest, one booking at a
\* time taken through its statuses, payments, checkout and invoices. The
\* requests that add to the ledger stop once it holds MaxPayments payments or
\* MaxInvoices invoices.
NextStay ==
    \/ \E n \in RoomNumbers, p \in Prices : create_room(n, p)
    \/ \E r \in RoomIds, u \in [price_per_night : Prices] \cup [status : {"maintenance"}] :
          update_room(r, u)
    \/ \E n \in Names, e \in Emails : create_guest(n, e)
    \/ /\ DOMAIN bookings = {}
       /\ \E g \in GuestIds, r \in RoomIds, ci \in Days, co \in Days :
             create_booking(g, r, ci, co, Pillows)
    \/ \E b \in BookingIds, u \in [status : BookingStatus] : update_booking(b, u)
    \/ /\ Len(payments) < MaxPayments
       /\ \E b \in BookingIds, a \in Amounts, adv \in BOOLEAN : create_payment(b, a, adv)
    \/ /\ Len(payments) < MaxPayments
       /\ Len(invoices) < MaxInvoices
       /\ \E b \in BookingIds, fp \in FinalPayments : checkout_booking(b, fp)
    \/ /\ Len(invoices) < MaxInvoices
       /\ \E b \in BookingIds : generate_invoice(b)
    \/ \E b \in BookingIds : get_booking_balance(b)

SpecStay == Init /\ [][NextStay]_vars

\* The ledger under deletion: a stay at the list price with its payments and
\* checkout, and the requests that delete the booking, the room and the guest
\* the payments and invoices refer to.
NextLedger ==
    \/ \E n \in RoomNumbers, p \in ListPrices : create_room(n, p)
    \/ \E n \in Names, e \in Emails : create_guest(n, e)
    \/ /\ DOMAIN bookings = {}
       /\ \E g \in GuestIds, r \in RoomIds, ci \in Days, co \in Days :
             create_booking(g, r, ci, co, Pillows)
    \/ \E b \in BookingIds, u \in [status : BookingStatus] : update_booking(b, u)
    \/ /\ Len(payments) < MaxPayments
       /\ \E b \in BookingIds, a \in Amounts, adv \in BOOLEAN : create_payment(b, a, adv)
    \/ /\ Len(payments) < MaxPayments
       /\ Len(invoices) < MaxInvoices
       /\ \E b \in BookingIds, fp \in FinalPayments : checkout_booking(b, fp)
    \/ \E b \in BookingIds : delete_booking(b)
    \/ \E r \in RoomIds : delete_room(r)
    \/ \E g \in GuestIds : delete_guest(g)

SpecLedger == Init /\ [][NextLedger]_vars

\* Invoices kept over time: one booking at the list price, its payments, and
\* invoices generated for it more than once, by request and by checkout, before
\* and after the booking is deleted.
NextInvoices ==
    \/ \E n \in RoomNumbers, p \in ListPrices : create_room(n, p)
    \/ \E n \in Names, e \in Emails : create_guest(n, e)
    \/ /\ DOMAIN bookings = {}
       /\ \E g \in GuestIds, r \in RoomIds, ci \in Days, co \in Days :
             create_booking(g, r, ci, co, Pillows)
    \/ \E b \in BookingIds, u \in [status : {"checked_in", "cancelled"}] : update_booking(b, u)
    \/ /\ Len(payments) < MaxPayments
       /\ \E b \in BookingIds, a \in Amounts, adv \in BOOLEAN : create_payment(b, a, adv)
    \/ /\ Len(payments) < MaxPayments
       /\ Len(invoices) <= MaxInvoices
       /\ \E b \in BookingIds, fp \in FinalPayments : checkout_booking(b, fp)
    \/ /\ Len(invoices) <= MaxInvoices
       /\ \E b \in BookingIds : generate_invoice(b)
    \/ \E b \in BookingIds : delete_booking(b)

SpecInvoices == Init /\ [][NextInvoices]_vars

\* The instants of a day the clock of the model shows: midnight, 23:59:59 and
\* the last microsecond.
TimesOfDay == {<<0, 0>>, <<86399000, 0>>, <<LastMs, LastUs>>}

Instants == {datetime(d, t[1], t[2]) : d \in Days, t \in TimesOfDay}

\* The expenses the requests of the model record.
ExpenseInputs == {"utilities", "supplies"}

ExpenseAmounts == {40}

ExpenseDates == {<<>>, <<MaxDay>>}

\* The books of a day: payments against one booking and expenses, recorded as
\* the clock moves on, and the report of each day.
NextReport ==
    \/ \E p \in ListPrices : create_room("101", p)
    \/ \E n \in Names, e \in Emails : create_guest(n, e)
    \/ /\ DOMAIN bookings = {}
       /\ \E g \in GuestIds, r \in RoomIds : create_booking(g, r, 1, 2, Pillows)
    \/ /\ Len(payments) < MaxPayments
       /\ \E b \in BookingIds, adv \in BOOLEAN : create_payment(b, 100, adv)
    \/ /\ Len(expenses) < MaxExpenses
       /\ \E c \in ExpenseInputs, a \in ExpenseAmounts, d \in ExpenseDates :
             create_expense(c, a, d)
    \/ \E t \in Instants : tick(t)
    \/ \E d \in Days : get_financial_report(d)

SpecReport == Init /\ [][NextReport]_vars

\* The rooms of the hotel: the default rooms, a room of another number and of a
\* default number, rooms taken out of service and deleted.
NextRooms ==
    \/ initialize_default_rooms
    \/ \E n \in {"101", "999"}, p \in ListPrices : create_room(n, p)
    \/ \E r \in RoomIds \cup {MaxRooms + 1}, u \in [status : {"maintenance"}] :
          update_room(r, u)
    \/ \E r \in RoomIds \cup DefaultRoomIds : delete_room(r)

SpecRooms == Init /\ [][NextRooms]_vars

\* The paths of the GET requests of the model.
Paths ==
    {<<"guests">>, <<"guests", "search">>, <<"bookings">>, <<"bookings", "range">>}
        \cup {<<"guests", PathId(g)>> : g \in GuestIds}
        \cup {<<"bookings", PathId(b)>> : b \in BookingIds}

\* The queries of the searches of the model.
Queries == {<<"d", "o", "e">>, <<"J", "O", "H", "N">>, <<"x", "y">>}

\* Reads of the guests and the bookings, between the requests that store them.
NextRoutes ==
    \/ \E p \in ListPrices : create_room("101", p)
    \/ \E n \in Names, e \in Emails : create_guest(n, e)
    \/ \E g \in GuestIds, r \in RoomIds, ci \in Days, co \in Days :
          create_booking(g, r, ci, co, Pillows)
    \/ \E b \in BookingIds : delete_booking(b)
    \/ \E path \in Paths, q \in Queries, s \in Days, e \in Days : GET(path, q, s, e)

SpecRoutes == Init /\ [][NextRoutes]_vars

\* Booking requests in flight together: each reads, then inserts, in any
\* interleaving; bookings get confirmed in between.
NextRace ==
    \/ \E p \in ListPrices : create_room("101", p)
    \/ \E n \in Names, e \in Emails : create_guest(n, e)
    \/ \E p \in Requests, g \in GuestIds, r \in RoomIds, ci \in Days, co \in Days :
          create_booking_read(p, g, r, ci, co, Pillows)
    \/ \E p \in Requests : create_booking_insert(p)
    \/ \E b \in BookingIds, u \in [status : {"confirmed"}] : update_booking(b, u)

SpecRace == Init /\ [][NextRace]_vars

\* Bookings and the room they are on: bookings created, taken to any status,
\* checked out and deleted; the room is written by these requests only.
NextSync ==
    \/ \E p \in ListPrices : create_room("101", p)
    \/ \E n \in Names, e \in Emails : create_guest(n, e)
    \/ \E g \in GuestIds, r \in RoomIds, ci \in Days, co \in Days :
          create_booking(g, r, ci, co, Pillows)
    \/ \E b \in BookingIds, u \in [status : BookingStatus] : update_booking(b, u)
    \/ /\ Len(invoices) < MaxInvoices
       /\ \E b \in BookingIds : checkout_booking(b, <<>>)
    \/ \E b \in BookingIds : delete_booking(b)

SpecSync == Init /\ [][NextSync]_vars

\* The moves of the booking state machine: pending to confirmed to checked_in
\* to checked_out, and cancelled from pending or confirmed.
LegalMove(from, to) ==
    \/ from = "pending" /\ to = "confirmed"
    \/ from = "confirmed" /\ to = "checked_in"
    \/ from = "checked_in" /\ to = "checked_out"
    \/ from \in {"pending", "confirmed"} /\ to = "cancelled"

\* Bookings that only move along the state machine, by update_booking or by
\* checkout; no room is edited or deleted.
NextLifecycle ==
    \/ \E p \in ListPrices : create_room("101", p)
    \/ \E n \in Names, e \in Emails : create_guest(n, e)
    \/ \E g \in GuestIds, r \in RoomIds, ci \in Days, co \in Days :
          create_booking(g, r, ci, co, Pillows)
    \/ \E b \in DOMAIN bookings, u \in [status : BookingStatus] :
          /\ LegalMove(bookings[b].status, u.status)
          /\ update_booking(b, u)
    \/ /\ Len(invoices) < MaxInvoices
       /\ \E b \in BookingIds : checkout_booking(b, <<>>)

SpecLifecycle == Init /\ [][NextLifecycle]_vars

\* The bodies of PUT /bookings/{booking_id} with the status field set, also to
\* null (BookingUpdate.status is Optional).
StatusUpdates == [status : BookingStatus \cup {None}]

\* Status updates of every kind on the bookings of a room.
NextStatus ==
    \/ \E p \in ListPrices : create_room("101", p)
    \/ \E n \in Names, e \in Emails : create_guest(n, e)
    \/ \E g \in GuestIds, r \in RoomIds, ci \in Days, co \in Days :
          create_booking(g, r, ci, co, Pillows)
    \/ \E b \in BookingIds, u \in StatusUpdates \cup [special_requests : {Pillows}] :
          update_booking(b, u)

SpecStatus == Init /\ [][NextStatus]_vars

\* The final payments of the checkouts in flight: of the booking, not advance.
DuePayments == {<<>>} \cup {<<body>> : body \in [booking_id : {1}, amount : Amounts,
                                                  is_advance : {FALSE}]}

\* Checkouts in flight together on one checked-in booking, each going through
\* its store steps in any interleaving, and payments recorded in between. The
\* booking is checked in once and its status is written by the checkouts only.
NextCheckout ==
    \/ \E p \in ListPrices : create_room("101", p)
    \/ \E n \in Names, e \in Emails : create_guest(n, e)
    \/ /\ DOMAIN bookings = {}
       /\ \E g \in GuestIds, r \in RoomIds, ci \in Days, co \in Days :
             create_booking(g, r, ci, co, Pillows)
    \/ \E b \in DOMAIN bookings, u \in [status : {"checked_in"}] :
          /\ bookings[b].status = "pending"
          /\ update_booking(b, u)
    \/ /\ Len(payments) < MaxPayments
       /\ \E b \in BookingIds, a \in Amounts : create_payment(b, a, TRUE)
    \/ \E p \in Requests, b \in BookingIds, fp \in DuePayments : checkout_find(p, b, fp)
    \/ \E p \in Requests : checkout_payments(p)
    \/ \E p \in Requests : checkout_insert_payment(p)
    \/ \E p \in Requests : checkout_update_booking(p)
    \/ \E p \in Requests : checkout_update_room(p)
    \/ \E p \in Requests : checkout_invoice(p)
    \/ \E p \in Requests : checkout_insert_invoice(p)

SpecCheckout == Init /\ [][NextCheckout]_vars

\* The instants around the end of a day: 23:59:59 sharp, half a second later
\* and the last microsecond, and the midnights on both sides.
WindowInstants ==
    {datetime(d, t[1], t[2]) :
       d \in Days, t \in {<<0, 0>>, <<86399000, 0>>, <<86399500, 0>>, <<LastMs, LastUs>>}}

\* Payments recorded around the end of a day, and the report of each day.
NextWindow ==
    \/ \E p \in ListPrices : create_room("101", p)
    \/ \E n \in Names, e \in Emails : create_guest(n, e)
    \/ /\ DOMAIN bookings = {}
       /\ \E g \in GuestIds, r \in RoomIds : create_booking(g, r, 1, 2, Pillows)
    \/ /\ Len(payments) < MaxPayments
       /\ \E b \in BookingIds : create_payment(b, 100, FALSE)
    \/ \E t \in WindowInstants : tick(t)
    \/ \E d \in Days : get_financial_report(d)

SpecWindow == Init /\ [][NextWindow]_vars

\* The completed stays of a day: bookings taken through their statuses as the
\* days pass, one payment, and the report of each day.
NextOccupancy ==
    \/ \E p \in ListPrices : create_room("101", p)
    \/ \E n \in Names, e \in Emails : create_guest(n, e)
    \/ \E g \in GuestIds, r \in RoomIds, ci \in Days, co \in Days :
          create_booking(g, r, ci, co, Pillows)
    \/ \E b \in BookingIds, u \in [status : {"checked_in", "checked_out", "cancelled"}] :
          update_booking(b, u)
    \/ /\ Len(payments) < 1
       /\ \E b \in BookingIds : create_payment(b, 100, TRUE)
    \/ \E d \in Days : tick(Midnight(d))
    \/ \E d \in Days : get_financial_report(d)

SpecOccupancy == Init /\ [][NextOccupancy]_vars

(* ----------------------- vocabulary of the claims --------------------- *)

\* The stored dates of booking b as day numbers.
CheckIn(b) == fromisoformat(bookings[b].check_in_date)

CheckOut(b) == fromisoformat(bookings[b].check_out_date)

\* Booking b has status confirmed or checked_in.
Blocking(b) == bookings[b].status = "confirmed" \/ bookings[b].status = "checked_in"

\* Some blocking booking on room r overlaps [ci, co): b.check_in < co and b.check_out > ci.
BlockingOverlap(r, ci, co) ==
    \E b \in DOMAIN bookings : /\ bookings[b].room_id = r
                               /\ Blocking(b)
                               /\ CheckIn(b) < co
                               /\ CheckOut(b) > ci

\* Every collection of the store is what it was before the step.
StoreUnchanged == UNCHANGED <<rooms, guests, bookings, payments, invoices, expenses>>

\* The step inserts exactly one booking, leaving the stored ones as they are.
InsertsOneBooking ==
    /\ Cardinality(DOMAIN bookings' \ DOMAIN bookings) = 1
    /\ \A b \in DOMAIN bookings : b \in DOMAIN bookings' /\ bookings'[b] = bookings[b]

\* The booking a step inserted.
NewBooking == CHOOSE b \in DOMAIN bookings' : b \notin DOMAIN bookings

Conflict == Response("create_booking", 400, "Room not available for selected dates")

\* The step is answered by handler op (every handler stamps its name on its answer).
Answers(op) == last'.op = op

(* ------------------------------- claims ------------------------------- *)

\* C1: in every reachable state, no two distinct bookings on the same room that
\* both have status confirmed or checked_in have overlapping [check_in, check_out)
\* intervals (a.check_in < b.check_out and a.check_out > b.check_in).
\* The code lets this fail: create_booking stores a booking as pending, which
\* blocks nothing, and update_booking confirms it without asking the
\* availability checker again.
C1_NoOverlappingActiveBookings ==
    \A a \in DOMAIN bookings, b \in DOMAIN bookings :
        (/\ a # b
         /\ bookings[a].room_id = bookings[b].room_id
         /\ Blocking(a)
         /\ Blocking(b))
        => ~ (CheckIn(a) < CheckOut(b) /\ CheckOut(a) > CheckIn(b))

\* C2: a create_booking request that names an existing guest and room and a
\* check-out after its check-in, and whose dates overlap a confirmed or
\* checked_in booking on that room, is answered 400 (Conflict) and inserts no
\* booking.
C2_OverlapIsConflict ==
    [][Answers("create_booking") =>
          \A g \in GuestIds, r \in RoomIds, ci \in Days, co \in Days :
          (/\ g \in DOMAIN guests
           /\ r \in DOMAIN rooms
           /\ ci < co
           /\ BlockingOverlap(r, ci, co)
           /\ create_booking(g, r, ci, co, Pillows))
          => (last' = Conflict /\ StoreUnchanged)]_vars

\* C2 witness: a create_booking request was refused as a conflict while a
\* blocking booking is stored.
C2_Witness ==
    /\ last = Conflict
    /\ \E b \in DOMAIN bookings : Blocking(b)

\* C3: back-to-back bookings do not conflict. With booking A confirmed on a room,
\* a valid create_booking request for the same room that starts on A's check-out
\* day (or ends on A's check-in day) and overlaps no blocking booking succeeds
\* and stores the booking as pending; confirming a pending booking that is
\* back-to-back with a confirmed one leaves both confirmed.
C3_BackToBackAllowed ==
    [][/\ Answers("create_booking") =>
          \A g \in GuestIds, r \in RoomIds, ci \in Days, co \in Days :
            (/\ g \in DOMAIN guests
             /\ r \in DOMAIN rooms
             /\ ci < co
             /\ \E a \in DOMAIN bookings : /\ bookings[a].room_id = r
                                           /\ bookings[a].status = "confirmed"
                                           /\ (CheckOut(a) = ci \/ CheckIn(a) = co)
             /\ ~ BlockingOverlap(r, ci, co)
             /\ create_booking(g, r, ci, co, Pillows))
            => (/\ last'.code = 200
                /\ InsertsOneBooking
                /\ bookings'[NewBooking].status = "pending"
                /\ bookings'[NewBooking].room_id = r
                /\ bookings'[NewBooking].check_in_date = isoformat(ci)
                /\ bookings'[NewBooking].check_out_date = isoformat(co))
       /\ Answers("update_booking") =>
          \A a \in DOMAIN bookings, b \in DOMAIN bookings, u \in BookingUpdates :
            (/\ a # b
             /\ bookings[a].room_id = bookings[b].room_id
             /\ bookings[a].status = "confirmed"
             /\ CheckOut(a) = CheckIn(b)
             /\ "status" \in DOMAIN u
             /\ u.status = "confirmed"
             /\ update_booking(b, u))
            => (/\ last'.code = 200
                /\ bookings'[a].status = "confirmed"
                /\ bookings'[b].status = "confirmed")]_vars

\* C3 witness: two bookings on one room, one ending the day the other starts,
\* both confirmed, the second confirmed by the last request.
C3_Witness ==
    /\ last = Response("update_booking", 200, "")
    /\ \E a \in DOMAIN bookings, b \in DOMAIN bookings :
          /\ a # b
          /\ bookings[a].room_id = bookings[b].room_id
          /\ bookings[a].status = "confirmed"
          /\ bookings[b].status = "confirmed"
          /\ CheckOut(a) = CheckIn(b)

\* C4: the availability check answers true exactly when no booking on the room
\* with status confirmed or checked_in has check_in < checkOut and
\* check_out > checkIn (so pending, cancelled and checked_out bookings never
\* matter), and it leaves the store as it was.
C4_AvailableIffNoBlockingOverlap ==
    [][Answers("check_room_availability_endpoint") =>
          \A r \in RoomIds, ci \in Days, co \in Days :
          (/\ r \in DOMAIN rooms
           /\ check_room_availability_endpoint(r, ci, co))
          => (/\ last'.code = 200
              /\ last'.detail = Available(~ BlockingOverlap(r, ci, co))
              /\ StoreUnchanged)]_vars

\* C4 witness: the check answered false while the room also carries a booking
\* that does not block.
C4_Witness ==
    /\ last = Response("check_room_availability_endpoint", 200, Available(FALSE))
    /\ \E a \in DOMAIN bookings, b \in DOMAIN bookings :
          /\ bookings[a].room_id = bookings[b].room_id
          /\ Blocking(a)
          /\ ~ Blocking(b)

\* C5: a create_booking request with check_out_date <= check_in_date is answered
\* 422 whatever guest and room it names, and inserts nothing; and every stored
\* booking has its check-out strictly after its check-in.
C5_CheckOutAfterCheckIn ==
    /\ [][Answers("create_booking") =>
          \A g \in GuestIds, r \in RoomIds, ci \in Days, co \in Days :
            (/\ co <= ci
             /\ create_booking(g, r, ci, co, Pillows))
            => (last'.code = 422 /\ StoreUnchanged)]_vars
    /\ [](\A b \in DOMAIN bookings : CheckOut(b) > CheckIn(b))

\* C5 witness: a request was refused by the validator while a guest and a room
\* to book exist, and a booking is stored.
C5_Witness ==
    /\ last.op = "create_booking"
    /\ last.code = 422
    /\ DOMAIN guests # {}
    /\ DOMAIN rooms # {}
    /\ DOMAIN bookings # {}

\* The nights of a stored booking document: whole days from check-in to check-out.
Nights(doc) == fromisoformat(doc.check_out_date) - fromisoformat(doc.check_in_date)

\* C6: a booking that create_booking stores has total_amount equal to its number
\* of nights times the price_per_night its room has at that moment, for every
\* price and every pair of dates.
C6_AmountIsNightsTimesPrice ==
    [][Answers("create_booking") =>
          \A g \in GuestIds, r \in RoomIds, ci \in Days, co \in Days :
             (/\ last'.code = 200
              /\ create_booking(g, r, ci, co, Pillows))
             => (/\ InsertsOneBooking
                 /\ Nights(bookings'[NewBooking]) = co - ci
                 /\ bookings'[NewBooking].total_amount
                      = Nights(bookings'[NewBooking]) * rooms[r].price_per_night)]_vars

\* C6 witness: a booking of two nights was just stored at 150 a night, 300 in all.
C6_Witness ==
    /\ last = Response("create_booking", 200, "")
    /\ \E b \in DOMAIN bookings :
          /\ Nights(bookings[b]) = 2
          /\ bookings[b].status = "pending"
          /\ rooms[bookings[b].room_id].price_per_night = 150
          /\ bookings[b].total_amount = 300

\* C7: total_amount is frozen at creation: no request (a price change by
\* update_room, update_booking, create_payment, checkout_booking,
\* generate_invoice) changes the total_amount of a stored booking.
C7_TotalAmountFrozen ==
    [][\A b \in DOMAIN bookings :
          b \in DOMAIN bookings' => bookings'[b].total_amount = bookings[b].total_amount]_vars

\* C7 witness: a booking went through payment, checkout and invoice, and its
\* room's price was changed since: the total is no longer nights times price.
C7_Witness ==
    \E b \in DOMAIN bookings :
       /\ bookings[b].status = "checked_out"
       /\ bookings[b].total_amount
            # Nights(bookings[b]) * rooms[bookings[b].room_id].price_per_night
       /\ PaymentsOf(payments, b) # <<>>
       /\ \E i \in DOMAIN invoices : invoices[i].booking_id = b

\* C8: a create_booking request with valid dates is answered 404 "Guest not
\* found" when its guest does not exist, also when its room does not exist
\* either or its dates are taken; it is answered 404 "Room not found" when the
\* guest exists and the room does not; either way the store is left as it was.
C8_GuestThenRoomNotFound ==
    [][Answers("create_booking") =>
          \A g \in GuestIds, r \in RoomIds, ci \in Days, co \in Days :
          (/\ ci < co
           /\ (g \notin DOMAIN guests \/ r \notin DOMAIN rooms)
           /\ create_booking(g, r, ci, co, Pillows))
          => (/\ last'.code = 404
              /\ last'.detail = (IF g \notin DOMAIN guests THEN "Guest not found"
                                                          ELSE "Room not found")
              /\ StoreUnchanged)]_vars

\* C8 witness: the request failed on the guest although no room exists either.
C8_Witness ==
    /\ last = Response("create_booking", 404, "Guest not found")
    /\ DOMAIN rooms = {}
    /\ DOMAIN guests = {}

\* C9: for a pending booking on an available room, update_booking to confirmed
\* leaves the room available; then update_booking to checked_in makes the room
\* occupied; then update_booking to checked_out makes the room cleaning. Each
\* request succeeds and stores the requested status.
C9_LifecycleDrivesRoom ==
    [][Answers("update_booking") =>
          \A b \in DOMAIN bookings, u \in BookingUpdates :
          (/\ "status" \in DOMAIN u
           /\ bookings[b].room_id \in DOMAIN rooms
           /\ update_booking(b, u))
          => LET r == bookings[b].room_id
                 was == bookings[b].status
                 room == rooms[r].status
                 Step(from, before, to, after) ==
                     (was = from /\ room = before /\ u.status = to)
                     => (/\ last'.code = 200
                         /\ bookings'[b].status = to
                         /\ rooms'[r].status = after)
             IN  /\ Step("pending", "available", "confirmed", "available")
                 /\ Step("confirmed", "available", "checked_in", "occupied")
                 /\ Step("checked_in", "occupied", "checked_out", "cleaning")]_vars

\* C9 witness: a booking was just checked out and its room is cleaning.
C9_Witness ==
    /\ last = Response("update_booking", 200, "")
    /\ \E b \in DOMAIN bookings :
          /\ bookings[b].status = "checked_out"
          /\ bookings[b].room_id \in DOMAIN rooms
          /\ rooms[bookings[b].room_id].status = "cleaning"

\* C10: update_booking to cancelled, from any booking status: a room that is
\* occupied becomes cleaning, and otherwise no room changes.
C10_CancelFreesOccupiedRoom ==
    [][Answers("update_booking") =>
          \A b \in DOMAIN bookings, u \in BookingUpdates :
          (/\ "status" \in DOMAIN u
           /\ u.status = "cancelled"
           /\ update_booking(b, u))
          => LET r == bookings[b].room_id
             IN  IF r \in DOMAIN rooms /\ rooms[r].status = "occupied"
                 THEN rooms' = [rooms EXCEPT ![r].status = "cleaning"]
                 ELSE rooms' = rooms]_vars

\* C10 witness: a booking was just cancelled and its room is cleaning.
C10_Witness ==
    /\ last = Response("update_booking", 200, "")
    /\ \E b \in DOMAIN bookings :
          /\ bookings[b].status = "cancelled"
          /\ bookings[b].room_id \in DOMAIN rooms
          /\ rooms[bookings[b].room_id].status = "cleaning"

\* Booking b is in one of the statuses the lifecycle names terminal.
Terminal(b) == bookings[b].status = "checked_out" \/ bookings[b].status = "cancelled"

\* C11: checked_out and cancelled are terminal: once a booking has one of them,
\* no later request changes the booking's status.
\* The code lets this fail: update_booking stores whatever status the body
\* carries, whatever the stored one is.
C11_TerminalStatusesStay ==
    [][\A b \in DOMAIN bookings :
          (Terminal(b) /\ b \in DOMAIN bookings')
          => bookings'[b].status = bookings[b].status]_vars

\* C12: update_booking on a stored booking is never refused for the booking's
\* status: for every stored status and every requested status the request is
\* answered 200 and the stored status becomes the requested one.
C12_AnyTransitionAccepted ==
    [][Answers("update_booking") =>
          \A b \in DOMAIN bookings, u \in [status : BookingStatus] :
          update_booking(b, u)
          => (/\ last'.code = 200
              /\ bookings'[b].status = u.status)]_vars

\* C12 witness: a booking is pending again although its room is cleaning, which
\* in this specification only the end of its own stay brings about.
C12_Witness ==
    /\ last = Response("update_booking", 200, "")
    /\ \E b \in DOMAIN bookings :
          /\ bookings[b].status = "pending"
          /\ bookings[b].room_id \in DOMAIN rooms
          /\ rooms[bookings[b].room_id].status = "cleaning"

\* The sum of the amounts of the payments of pays recorded against booking b,
\* from position i on.
RECURSIVE PaidFrom(_, _, _)
PaidFrom(pays, b, i) ==
    IF i > Len(pays) THEN 0
    ELSE (IF pays[i].booking_id = b THEN pays[i].amount ELSE 0) + PaidFrom(pays, b, i + 1)

\* The sum of the amounts of the payments of pays recorded against booking b.
Paid(pays, b) == PaidFrom(pays, b, 1)

\* What is left to pay of stored booking b: may be negative.
Due(b) == bookings[b].total_amount - Paid(payments, b)

NotCheckedIn == Response("checkout_booking", 400, "Booking must be checked in to checkout")

ExceedsBalance == Response("checkout_booking", 400, "Payment amount exceeds balance due")

\* C13: checkout of a stored booking whose status is not checked_in is answered
\* 400 (InvalidState) whatever the balance and the body, and changes nothing.
C13_CheckoutNeedsCheckedIn ==
    [][Answers("checkout_booking") =>
          \A b \in DOMAIN bookings, fp \in FinalPayments :
          (/\ bookings[b].status # "checked_in"
           /\ checkout_booking(b, fp))
          => (last' = NotCheckedIn /\ StoreUnchanged)]_vars

\* C13 witness: checkout was refused for a booking that is not checked in and
\* has nothing left to pay.
C13_Witness ==
    /\ last = NotCheckedIn
    /\ \E b \in DOMAIN bookings :
          /\ bookings[b].status # "checked_in"
          /\ Due(b) = 0

\* C14: checkout of a checked_in booking with a final payment whose amount is
\* greater than the balance due is answered 400 (InvalidAmount) and changes
\* nothing, for every value of the balance due, zero and negative included.
\* The code lets this fail: with a balance due of zero or less it ignores the
\* body and completes the checkout.
C14_OverpaymentRefused ==
    [][Answers("checkout_booking") =>
          \A b \in DOMAIN bookings, fp \in FinalPayments :
          (/\ bookings[b].status = "checked_in"
           /\ fp # <<>>
           /\ fp[1].amount > Due(b)
           /\ checkout_booking(b, fp))
          => (last' = ExceedsBalance /\ StoreUnchanged)]_vars

\* The step appends exactly one document to the invoices.
AppendsOneInvoice ==
    /\ Len(invoices') = Len(invoices) + 1
    /\ SubSeq(invoices', 1, Len(invoices)) = invoices

\* The step appends exactly one document to the payments.
AppendsOnePayment ==
    /\ Len(payments') = Len(payments) + 1
    /\ SubSeq(payments', 1, Len(payments)) = payments

\* C15: a checkout that succeeds on a checked_in booking leaves the booking
\* checked_out and its room cleaning whatever the room's status was, and adds
\* exactly one invoice, for that booking; with or without a final payment, with
\* or without a positive balance left.
C15_CheckoutClosesStay ==
    [][Answers("checkout_booking") =>
          \A b \in DOMAIN bookings, fp \in FinalPayments :
          (/\ bookings[b].status = "checked_in"
           /\ last'.code = 200
           /\ checkout_booking(b, fp))
          => (/\ bookings'[b].status = "checked_out"
              /\ rooms'[bookings[b].room_id].status = "cleaning"
              /\ AppendsOneInvoice
              /\ invoices'[Len(invoices')].booking_id = b)]_vars

\* C15 witness: a checkout without payment succeeded with a positive balance
\* left, and the booking is checked_out, its room cleaning.
C15_Witness ==
    /\ last.op = "checkout_booking"
    /\ last.code = 200
    /\ last.balance_due > 0
    /\ last.total_paid = 0
    /\ \E b \in DOMAIN bookings :
          /\ bookings[b].status = "checked_out"
          /\ rooms[bookings[b].room_id].status = "cleaning"
          /\ \E i \in DOMAIN invoices : invoices[i].booking_id = b

C18_PaymentRecorded ==
    [][Answers("create_payment") =>
          \A b \in BookingIds, a \in Amounts, adv \in BOOLEAN :
          create_payment(b, a, adv)
          => IF b \notin DOMAIN bookings
             THEN /\ last' = Response("create_payment", 404, "Booking not found")
                  /\ StoreUnchanged
             ELSE /\ last'.code = 200
                  /\ AppendsOnePayment
                  /\ payments'[Len(payments')].booking_id = b
                  /\ payments'[Len(payments')].amount = a
                  /\ payments'[Len(payments')].is_advance = adv
                  /\ payments'[Len(payments')].status = "completed"
                  /\ UNCHANGED <<bookings, rooms>>]_vars

\* C18 witness: an advance payment was just recorded against a cancelled booking
\* and takes it beyond its total.
C18_Witness ==
    /\ last = Response("create_payment", 200, "")
    /\ payments # <<>>
    /\ payments[Len(payments)].is_advance
    /\ \E b \in DOMAIN bookings :
          /\ payments[Len(payments)].booking_id = b
          /\ bookings[b].status = "cancelled"
          /\ Due(b) < 0

\* C19: payments are append-only: every step leaves the stored payments in
\* place and unchanged, whatever is updated, checked out or deleted.
C19_PaymentsAppendOnly ==
    [][/\ Len(payments') >= Len(payments)
       /\ SubSeq(payments', 1, Len(payments)) = payments]_vars

\* C19 witness: a payment is stored whose booking, room and guest were deleted.
C19_Witness ==
    /\ last = Response("delete_guest", 200, "")
    /\ payments # <<>>
    /\ payments[1].booking_id \notin DOMAIN bookings
    /\ DOMAIN rooms = {}
    /\ DOMAIN guests = {}

\* C20: delete_room on a stored room with a confirmed or checked_in booking is
\* answered 400 (Conflict) and the room stays; on a stored room whose bookings
\* are all pending, cancelled or checked_out, or that has none, it succeeds
\* and removes the room, and that room only.
C20_DeleteRoomGuard ==
    [][Answers("delete_room") =>
          \A r \in DOMAIN rooms :
          delete_room(r)
          => IF \E b \in DOMAIN bookings : bookings[b].room_id = r /\ Blocking(b)
             THEN /\ last' = Response("delete_room", 400,
                                      "Cannot delete room with active bookings")
                  /\ r \in DOMAIN rooms'
                  /\ StoreUnchanged
             ELSE /\ last'.code = 200
                  /\ DOMAIN rooms' = DOMAIN rooms \ {r}
                  /\ \A x \in DOMAIN rooms' : rooms'[x] = rooms[x]
                  /\ UNCHANGED <<guests, bookings, payments, invoices>>]_vars

\* C20 witness: a room was just deleted that two bookings still name, one
\* pending and one cancelled or checked_out.
C20_Witness ==
    /\ last = Response("delete_room", 200, "")
    /\ \E a \in DOMAIN bookings, b \in DOMAIN bookings :
          /\ bookings[a].room_id \notin DOMAIN rooms
          /\ bookings[b].room_id = bookings[a].room_id
          /\ bookings[a].status = "pending"
          /\ bookings[b].status \in {"cancelled", "checked_out"}

\* The sum of the amounts of the advance payments of pays recorded against
\* booking b, from position i on.
RECURSIVE AdvanceFrom(_, _, _)
AdvanceFrom(pays, b, i) ==
    IF i > Len(pays) THEN 0
    ELSE (IF pays[i].booking_id = b /\ pays[i].is_advance THEN pays[i].amount ELSE 0)
           + AdvanceFrom(pays, b, i + 1)

C22_InvoicesAreSnapshots ==
    [][/\ Len(invoices') >= Len(invoices)
       /\ SubSeq(invoices', 1, Len(invoices)) = invoices
       /\ Answers("generate_invoice") =>
            \A b \in DOMAIN bookings :
              (/\ \E i \in DOMAIN invoices : invoices[i].booking_id = b
               /\ InvoiceMissing(bookings[b]) = None
               /\ generate_invoice(b))
              => (/\ AppendsOneInvoice
                  /\ invoices'[Len(invoices')].booking_id = b
                  /\ invoices'[Len(invoices')].payments
                        = SelectSeq(payments, LAMBDA p : p.booking_id = b))]_vars

\* C22 witness: two invoices of one booking, the second just generated; the
\* payment recorded between them is in the second and not in the first.
C22_Witness ==
    /\ last = Response("generate_invoice", 200, "")
    /\ Len(invoices) = 2
    /\ invoices[1].booking_id = invoices[2].booking_id
    /\ Len(invoices[1].payments) = 1
    /\ Len(invoices[2].payments) = 2
    /\ invoices[1].balance_due # invoices[2].balance_due

\* The sum of the amounts of the payments from the i-th on whose payment_date
\* is an instant of day d and whose is_advance is one of kinds.
RECURSIVE ReceivedFrom(_, _, _)
ReceivedFrom(d, kinds, i) ==
    IF i > Len(payments) THEN 0
    ELSE (IF payments[i].payment_date.date = d /\ payments[i].is_advance \in kinds
          THEN payments[i].amount ELSE 0) + ReceivedFrom(d, kinds, i + 1)

Received(d, kinds) == ReceivedFrom(d, kinds, 1)

\* The sum of the amounts of the expenses from the i-th on whose expense_date is
\* day d and whose category is one of cats.
RECURSIVE SpentFrom(_, _, _)
SpentFrom(d, cats, i) ==
    IF i > Len(expenses) THEN 0
    ELSE (IF fromisoformat(expenses[i].expense_date) = d /\ expenses[i].category \in cats
          THEN expenses[i].amount ELSE 0) + SpentFrom(d, cats, i + 1)

Spent(d, cats) == SpentFrom(d, cats, 1)

\* C23: the report of day d has total_income the sum of the payments dated d,
\* advance_payments and final_payments the sums over those with is_advance true
\* and false (so they add up to total_income), total_expenses the sum of the
\* expenses whose expense_date is d, expenses_by_category mapping exactly the
\* categories with an expense that day to their sums, and net_profit the
\* difference; a day with no activity has zero totals and an empty map.
\* The code lets this fail: a payment stamped within the last millisecond of
\* day d is dated d and the query's "$lt" upper bound leaves it out.
C23_ReportTotals ==
    [][Answers("get_financial_report") =>
         \A d \in Days :
           get_financial_report(d) =>
             /\ last'.total_income = Received(d, BOOLEAN)
             /\ last'.advance_payments = Received(d, {TRUE})
             /\ last'.final_payments = Received(d, {FALSE})
             /\ last'.advance_payments + last'.final_payments = last'.total_income
             /\ last'.total_expenses = Spent(d, ExpenseCategory)
             /\ DOMAIN last'.expenses_by_category
                   = {c \in ExpenseCategory :
                        \E i \in DOMAIN expenses :
                          /\ expenses[i].category = c
                          /\ fromisoformat(expenses[i].expense_date) = d}
             /\ \A c \in DOMAIN last'.expenses_by_category :
                   last'.expenses_by_category[c] = Spent(d, {c})
             /\ last'.net_profit = last'.total_income - last'.total_expenses]_vars

\* The bookings the report of day d is to count.
RECURSIVE RevenueFrom(_, _)
RevenueFrom(d, b) ==
    IF b > MaxBookings + 1 THEN 0
    ELSE (IF b \in DOMAIN bookings /\ bookings[b].status = "checked_out" /\ CheckOut(b) = d
          THEN bookings[b].total_amount ELSE 0) + RevenueFrom(d, b + 1)

RoomNumbersUnique ==
    \A r1 \in DOMAIN rooms : \A r2 \in DOMAIN rooms :
        rooms[r1].room_number = rooms[r2].room_number => r1 = r2

\* C25: under create_room, update_room, delete_room and initialize-rooms, one
\* at a time, no two stored rooms ever have the same room_number, and
\* create_room with a room_number in use answers 400 and inserts nothing.
C25_RoomNumberUnique ==
    /\ []RoomNumbersUnique
    /\ [][Answers("create_room") =>
            \A n \in {"101", "999"}, p \in ListPrices :
              (/\ \E r \in DOMAIN rooms : rooms[r].room_number = n
               /\ create_room(n, p))
              => (/\ last'.code = 400
                  /\ StoreUnchanged)]_vars

\* The default rooms and one more are stored, and a create_room with a number
\* in use has been refused.
C25_Witness ==
    /\ last = Response("create_room", 400, "Room number already exists")
    /\ Cardinality(DOMAIN rooms) > Len(default_rooms)

\* C26: initialize-rooms with no room stored inserts exactly the ten fixed
\* rooms; with a room stored it changes nothing; so a call that follows a call
\* leaves the rooms as the first left them.
C26_InitializeRoomsIdempotent ==
    [][Answers("initialize_default_rooms") =>
         (initialize_default_rooms =>
            /\ UNCHANGED <<guests, bookings, payments, invoices, expenses>>
            /\ DOMAIN rooms = {} =>
                  /\ Cardinality(DOMAIN rooms') = 10
                  /\ {rooms'[r].room_number : r \in DOMAIN rooms'}
                        = {"101", "102", "103", "104", "105",
                           "201", "202", "203", "204", "205"}
                  /\ \A r \in DOMAIN rooms' : rooms'[r].status = "available"
            /\ DOMAIN rooms # {} => rooms' = rooms
            /\ last.op = "initialize_default_rooms" => rooms' = rooms)]_vars

\* A second call right after the call that inserted the ten rooms.
C26_Witness ==
    /\ last = Message("initialize_default_rooms", "Rooms already initialized")
    /\ rooms = rooms_to_insert

\* C27: a GET request to /guests/search?query=q is answered by search_guests
\* with the guests whose name, email or phone contains q, and a GET request to
\* /bookings/range by get_bookings_by_date_range; neither is taken by the
\* get-by-id route of the same prefix.
\* The code lets this fail: /guests/{guest_id} and /bookings/{booking_id} are
\* registered first and match both paths.
C27_SearchAndRangeReachTheirHandlers ==
    [][\A q \in Queries, s \in Days, e \in Days :
         /\ GET(<<"guests", "search">>, q, s, e) =>
               /\ last'.op = "search_guests"
               /\ last'.code = 200
               /\ last'.result = {g \in DOMAIN guests :
                                    \/ RegexMatches(Spell(guests[g].name), q)
                                    \/ RegexMatches(Spell(guests[g].email), q)}
         /\ GET(<<"bookings", "range">>, q, s, e) =>
               /\ last'.op = "get_bookings_by_date_range"
               /\ last'.code = 200]_vars

\* No two bookings of bs on the same room, both confirmed or checked_in, overlap.
NonOverlapIn(bs) ==
    \A a \in DOMAIN bs : \A b \in DOMAIN bs :
        (/\ a # b
         /\ bs[a].room_id = bs[b].room_id
         /\ bs[a].status \in ActiveStatuses
         /\ bs[b].status \in ActiveStatuses)
        => ~ (/\ fromisoformat(bs[a].check_in_date) < fromisoformat(bs[b].check_out_date)
              /\ fromisoformat(bs[a].check_out_date) > fromisoformat(bs[b].check_in_date))

\* Request q has inserted a booking that request p's availability read did not
\* look at, on p's room and overlapping p's dates: p and q race.
Races(p, q) ==
    /\ q \in DOMAIN inflight
    /\ q # p
    /\ inflight[q].pc = "done"
    /\ inflight[q].booking \in DOMAIN bookings
    /\ inflight[q].booking \notin inflight[p].snapshot
    /\ inflight[p].booking \notin inflight[q].snapshot
    /\ inflight[q].room_id = inflight[p].room_id
    /\ inflight[q].check_in_date < inflight[p].check_out_date
    /\ inflight[q].check_out_date > inflight[p].check_in_date

\* C28 as stated: when two concurrent create_booking requests for the same room
\* and overlapping dates have both observed the room available and both
\* inserted, the resulting state violates the non-overlap invariant on
\* bookings with status confirmed or checked_in.
C28_RaceBreaksNonOverlap ==
    [][\A p \in DOMAIN inflight :
         (/\ inflight[p].pc = "insert"
          /\ \E q \in Requests : Races(p, q)
          /\ create_booking_insert(p)
          /\ last'.code = 200)
         => ~ NonOverlapIn(bookings')]_vars

\* C28, amended: both requests insert, each booking is stored pending, so the
\* state holds two overlapping bookings of the room and the invariant on
\* confirmed and checked_in bookings is as it was before the inserts.
C28_RaceStoresOverlappingPending ==
    [][\A p \in DOMAIN inflight :
         (/\ inflight[p].pc = "insert"
          /\ inflight[p].room_id \in DOMAIN rooms
          /\ create_booking_insert(p))
         => /\ last' = Response("create_booking", 200, "")
            /\ InsertsOneBooking
            /\ bookings'[NewBooking].status = "pending"
            /\ bookings'[NewBooking].room_id = inflight[p].room_id
            /\ fromisoformat(bookings'[NewBooking].check_in_date) = inflight[p].check_in_date
            /\ fromisoformat(bookings'[NewBooking].check_out_date) = inflight[p].check_out_date
            /\ NonOverlapIn(bookings) = NonOverlapIn(bookings')]_vars

\* Two requests that raced have both inserted: two overlapping bookings of one
\* room are stored, neither seen by the other's availability read.
C28_Witness ==
    \E p \in DOMAIN inflight :
        /\ inflight[p].pc = "done"
        /\ inflight[p].booking \in DOMAIN bookings
        /\ \E q \in Requests : Races(p, q)
        /\ last = Response("create_booking", 200, "")

\* C29: checkout can apply in part: a checkout of a checked_in booking whose
\* guest or room no longer exists is answered 404 by the invoice step after the
\* final payment, when one is due, has been recorded and the booking set to
\* checked_out; neither is undone.
C29_CheckoutAppliesInPart ==
    [][Answers("checkout_booking") =>
         \A b \in DOMAIN bookings, fp \in FinalPayments :
           (/\ bookings[b].status = "checked_in"
            /\ InvoiceMissing(bookings[b]) # None
            /\ ~ (fp # <<>> /\ Due(b) > 0 /\ fp[1].amount > Due(b))
            /\ checkout_booking(b, fp))
           => /\ last' = Response("checkout_booking", 404, InvoiceMissing(bookings[b]))
              /\ bookings'[b].status = "checked_out"
              /\ invoices' = invoices
              /\ IF fp # <<>> /\ Due(b) > 0
                 THEN /\ AppendsOnePayment
                      /\ payments'[Len(payments')].booking_id = b
                      /\ payments'[Len(payments')].amount = fp[1].amount
                 ELSE payments' = payments]_vars

\* A checkout was answered 404 and the booking is checked_out, its final
\* payment recorded and no invoice made for it.
C29_Witness ==
    /\ last.op = "checkout_booking"
    /\ last.code = 404
    /\ last.detail \in {"Guest not found", "Room not found"}
    /\ \E b \in DOMAIN bookings :
          /\ bookings[b].status = "checked_out"
          /\ InvoiceMissing(bookings[b]) # None
          /\ Len(payments) > 0
          /\ payments[Len(payments)].booking_id = b
          /\ ~ payments[Len(payments)].is_advance
          /\ \A i \in DOMAIN invoices : invoices[i].booking_id # b

C31_OffPathUpdatesLeaveRooms ==
    [][Answers("update_booking") =>
         \A b \in DOMAIN bookings, u \in BookingUpdates :
           update_booking(b, u) =>
             /\ ("status" \in DOMAIN u /\ u["status"] = "checked_in"
                    /\ bookings[b].status # "confirmed")
                  => (/\ last'.code = 200
                      /\ bookings'[b].status = "checked_in"
                      /\ rooms' = rooms)
             /\ ("status" \in DOMAIN u /\ u["status"] = "checked_out"
                    /\ bookings[b].status # "checked_in")
                  => (/\ last'.code = 200
                      /\ bookings'[b].status = "checked_out"
                      /\ rooms' = rooms)
             /\ DOMAIN u = {"special_requests"}
                  => (/\ bookings'[b].status = bookings[b].status
                      /\ rooms' = rooms)]_vars

\* A booking went from pending straight to checked_in and its room, which
\* exists, is still available.
C31_Witness ==
    /\ last = Response("update_booking", 200, "")
    /\ \E b \in DOMAIN bookings :
          /\ bookings[b].status = "checked_in"
          /\ bookings[b].room_id \in DOMAIN rooms
          /\ rooms[bookings[b].room_id].status = "available"

\* C32: in every reachable state each booking with status confirmed or
\* checked_in names a room and a guest that are stored.
\* The code lets this fail: delete_room and delete_guest refuse only while
\* such a booking exists, and update_booking confirms or checks in a pending
\* booking whose room or guest has since been deleted.
C32_ActiveBookingsReferToStored ==
    \A b \in DOMAIN bookings :
        Blocking(b) => /\ bookings[b].room_id \in DOMAIN rooms
                       /\ bookings[b].guest_id \in DOMAIN guests

\* C33: with rooms that start available and are not edited through
\* update_room, a room is occupied only if a stored booking on it is checked_in,
\* after any create_booking, update_booking, checkout and delete_booking.
\* The code lets this fail: delete_booking removes a checked_in booking, and
\* update_booking takes it to pending or confirmed, without touching the room.
C33_OccupiedRoomHasCheckedInBooking ==
    \A r \in DOMAIN rooms :
        rooms[r].status = "occupied"
          => \E b \in DOMAIN bookings : /\ bookings[b].room_id = r
                                        /\ bookings[b].status = "checked_in"

\* C34: when bookings only move pending, confirmed, checked_in, checked_out (by
\* update_booking or checkout) or get cancelled, and no room is edited or
\* deleted, every checked_in booking has a room whose status is occupied, also
\* with several bookings on the room.
\* The code lets this fail: the checkout of one booking sends the room to
\* cleaning while another booking of the room is checked_in.
C34_CheckedInBookingHasOccupiedRoom ==
    \A b \in DOMAIN bookings :
        bookings[b].status = "checked_in"
          => /\ bookings[b].room_id \in DOMAIN rooms
             /\ rooms[bookings[b].room_id].status = "occupied"

\* C35: in every reachable state the status of every stored booking is one of
\* pending, confirmed, checked_in, checked_out and cancelled, after any
\* update_booking requests, also one whose body sets status to null.
\* The code lets this fail: the null is written to the store, and only then
\* does building the response fail.
C35_StatusIsOfTheEnum ==
    \A b \in DOMAIN bookings : bookings[b].status \in BookingStatus

\* Some invoice of invs is for booking b.
HasInvoiceIn(invs, b) == \E i \in DOMAIN invs : invs[i].booking_id = b

\* C36 as stated: every booking with status checked_out has at least one stored
\* invoice for it, after any update_booking, checkout and generate_invoice.
C36_CheckedOutHasInvoice ==
    \A b \in DOMAIN bookings :
        bookings[b].status = "checked_out" => HasInvoiceIn(invoices, b)

\* C36, amended: a booking that is checked_out with no invoice stored for it
\* was made so by update_booking, which stores the status and makes no
\* invoice; a checkout that sets a booking to checked_out stores an invoice for
\* it, and no step takes an invoice away.
C36_OnlyUpdateChecksOutWithoutInvoice ==
    [][/\ \A b \in DOMAIN bookings' :
            (bookings'[b].status = "checked_out" /\ ~ HasInvoiceIn(invoices', b))
              => \/ last'.op = "update_booking" /\ invoices' = invoices
                 \/ /\ b \in DOMAIN bookings
                    /\ bookings[b].status = "checked_out"
                    /\ ~ HasInvoiceIn(invoices, b)
       /\ Len(invoices') >= Len(invoices)
       /\ Answers("checkout_booking") /\ last'.code = 200
            => \E b \in DOMAIN bookings :
                 /\ bookings[b].status = "checked_in"
                 /\ bookings'[b].status = "checked_out"
                 /\ HasInvoiceIn(invoices', b)]_vars

\* A booking is checked_out by update_booking and no invoice is stored for it.
C36_Witness ==
    /\ last = Response("update_booking", 200, "")
    /\ \E b \in DOMAIN bookings :
          /\ bookings[b].status = "checked_out"
          /\ ~ HasInvoiceIn(invoices, b)

\* C37: two concurrent checkout requests on the same checked_in booking do not
\* both succeed: of two requests answered for one booking, at most one
\* recorded a final payment and made an invoice, and the other was refused
\* because the booking is not checked in.
\* The code lets this fail: both requests read the status before either writes
\* it.
C37_OneCheckoutSucceeds ==
    \A p \in DOMAIN inflight : \A q \in DOMAIN inflight :
        (/\ p # q
         /\ inflight[p].pc = "done"
         /\ inflight[q].pc = "done"
         /\ inflight[p].booking_id = inflight[q].booking_id)
        => /\ ~ (inflight[p].answer.code = 200 /\ inflight[q].answer.code = 200)
           /\ Cardinality({i \in DOMAIN invoices :
                             invoices[i].booking_id = inflight[p].booking_id}) <= 1
           /\ Cardinality({i \in DOMAIN payments :
                             /\ payments[i].booking_id = inflight[p].booking_id
                             /\ ~ payments[i].is_advance}) <= 1

\* C38: under any interleaving of a checkout with create_payment or another
\* checkout on the booking, the final payment the checkout records does not
\* take the sum of the booking's payments above its total_amount, when that
\* sum was not above it as the checkout started.
\* The code lets this fail: the amount is checked against the payments read
\* earlier, and payments stored since are not seen.
C38_FinalPaymentWithinTotal ==
    [][\A p \in DOMAIN inflight :
         (/\ inflight[p].pc = "insert_payment"
          /\ inflight[p].paid_at_start <= inflight[p].booking[1].total_amount
          /\ checkout_insert_payment(p))
         => SumAmounts(PaymentsOf(payments', inflight[p].booking_id))
              <= inflight[p].booking[1].total_amount]_vars

\* Instant t falls within [d 00:00:00, d 23:59:59], both ends included.
InWindow(t, d) ==
    /\ t.date = d
    /\ \/ t.ms < 86399000
       \/ t.ms = 86399000 /\ t.us = 0

\* The sum of the amounts of the payments from the i-th on stamped within the
\* window of day d.
RECURSIVE WindowSumFrom(_, _)
WindowSumFrom(d, i) ==
    IF i > Len(payments) THEN 0
    ELSE (IF InWindow(payments[i].payment_date, d) THEN payments[i].amount ELSE 0)
           + WindowSumFrom(d, i + 1)

\* C39: the report of day d counts a payment in total_income if and only if
\* its payment_date falls within [d 00:00:00, d 23:59:59], both ends included;
\* a payment stamped at a later instant of the day, or on another day, is not
\* counted.
\* The code lets this fail: its upper end is "$lt" 23:59:59.999999, so a
\* payment stamped half a second after 23:59:59 is counted.
C39_IncomeWindow ==
    [][Answers("get_financial_report") =>
         \A d \in Days :
           get_financial_report(d) => last'.total_income = WindowSumFrom(d, 1)]_vars

====
